---- MODULE Spec2Model ----
(***************************************************************************)
(* Model of the order lifecycle of ea_okx:                                 *)
(*   crates/trading/src/state_machine.rs  (OrderState, OrderStateMachine)  *)
(*   crates/trading/src/order_manager.rs  (OrderManager)                   *)
(* of its pre-trade validator:                                             *)
(*   crates/risk/src/validators.rs        (PreTradeValidator)              *)
(* and of its backtest accounting:                                         *)
(*   crates/backtest/src/portfolio.rs     (Portfolio)                      *)
(*   crates/core/src/models/position.rs   (Position)                       *)
(*                                                                         *)
(* SpecSM drives one OrderStateMachine with arbitrary transition calls.    *)
(* SpecOM runs the order manager at the granularity of its lock sections   *)
(* and channel sends, every submitted Order carrying a fresh id (Order::new *)
(* draws a new Uuid).  SpecOMReuse is SpecOM with submit_order also called  *)
(* with an id the manager already holds (Order is Clone, id is pub).       *)
(* SpecRisk applies validate_order to any order and portfolio snapshot;    *)
(* SpecOMRisk is SpecOM started with the validation of the order at hand.  *)
(* SpecPF applies apply_fill and update_prices to a Portfolio that is new  *)
(* or already holds a position.                                            *)
(*                                                                         *)
(* Further models, each with its own specification:                        *)
(*   crates/backtest/src/cost_model.rs    (CostModel)          SpecCost    *)
(*   crates/core/src/models/order.rs      (Order)              SpecOrder   *)
(*   crates/trading/src/algorithms.rs     (TwapExecutor)       SpecTwap    *)
(*   crates/backtest/src/engine.rs        (BacktestEngine)     SpecBT      *)
(* SpecCost calls calculate_total_cost with exact decimal arithmetic.      *)
(* SpecOrder applies the mutating methods of Order in any order.  SpecTwap *)
(* runs TwapExecutor::execute one pass of its loop at a time.  SpecBT runs *)
(* BacktestEngine::run step by step, and then again on the same inputs     *)
(* with another random state (Uuids, HashMap iteration order).             *)
(* SpecTwapOM runs a TwapExecutor of one slice together with the order     *)
(* manager its child order goes to.  SpecBTPerm runs the engine, then once *)
(* more on a data source that returns the same candles in another order.   *)
(***************************************************************************)
EXTENDS Integers, Sequences, FiniteSets, TLC

VARIABLES
    now,              \* Utc::now(), in whole seconds
    sm,               \* SpecSM: the OrderStateMachine under test
    lastCall,         \* SpecSM: the last transition call: its argument, its result, the machine before it
    orders,           \* OrderManager.orders: HashMap<Uuid, ManagedOrder>
    exchange_id_map,  \* OrderManager.exchange_id_map: HashMap<String, Uuid>
    events,           \* what was sent on event_tx, in channel order
    submits,          \* submit_order calls: [id, pc]
    tasks,            \* tasks spawned by submit_order (submit_to_exchange): [id, pc]
    cancels,          \* cancel_order calls: [id, pc, seen]
    rec,              \* the reconciliation loop: position, locals and the record of its passes
    limits,           \* PreTradeValidator.limits: RiskLimits
    portfolio_state,  \* the PortfolioState snapshot handed to validate_order
    validated,        \* the last validate_order call: its order and its ValidationResult
    portfolio,        \* backtest Portfolio
    lastFill,         \* the last apply_fill / update_prices call: its arguments, its outcome, the Portfolio
                      \* before it, the call before it, and whether every call so far returned Ok (clean)
    bt,               \* SpecBT: the inputs of a backtest and the BacktestEngine of each of two runs on them
    costCall,         \* SpecCost: the arguments of calculate_total_cost and what it returned for each side
    ord,              \* SpecOrder: one core Order, the last call on it and the Order before that call
    twap              \* SpecTwap: the locals of TwapExecutor::execute

vars == <<now, sm, lastCall, orders, exchange_id_map, events, submits, tasks, cancels, rec,
          limits, portfolio_state, validated, portfolio, lastFill, bt, costCall, ord, twap>>

omVars == <<orders, exchange_id_map, events, submits, tasks, cancels, rec>>

riskVars == <<limits, portfolio_state, validated>>

pfVars == <<portfolio, lastFill>>

\* The backtest engine, the cost model, the core Order and the TWAP executor
otherVars == <<bt, costCall, ord, twap>>

\* What the order lifecycle leaves alone: the validator, the backtest portfolio and the rest
extVars == <<riskVars, pfVars, otherVars>>

\* What the validator and the backtest portfolio leave alone
lifecycleVars == <<now, sm, lastCall, omVars>>

(* ------------------------------- bounds ------------------------------- *)

MaxTime == 2
MaxTransitions == 6
MaxResubmits == 1
MaxCancels == 2
ReuseMaxCancels == 1
MaxReconciles == 2

\* OrderManagerConfig.order_timeout_secs, scaled to the model's clock
order_timeout_secs == 1

\* The Uuids of the Orders handed to submit_order
OrderIds == {"o1"}

(* --------------------------- state_machine.rs -------------------------- *)

OrderState == {"Created", "Validated", "Submitted", "Acknowledged", "PartiallyFilled",
               "Filled", "Cancelled", "Rejected", "Failed", "Expired"}

is_terminal(s) == s \in {"Filled", "Cancelled", "Rejected", "Failed", "Expired"}

can_cancel(s) == s \in {"Created", "Validated", "Submitted", "Acknowledged", "PartiallyFilled"}

OrderStateMachine_new(order_id, t) ==
    [order_id |-> order_id,
     current_state |-> "Created",
     transitions |-> << >>,
     created_at |-> t,
     updated_at |-> t]

\* is_valid_transition with a timeout edge added out of Validated
is_valid_transition_expires_validated(current_state, to_state) ==
    IF is_terminal(current_state) THEN FALSE
    ELSE IF current_state = to_state THEN TRUE
    ELSE <<current_state, to_state>> \in
        {<<"Created", "Validated">>, <<"Created", "Rejected">>, <<"Created", "Failed">>,
         <<"Validated", "Submitted">>, <<"Validated", "Rejected">>, <<"Validated", "Cancelled">>,
         <<"Validated", "Expired">>,
         <<"Submitted", "Acknowledged">>, <<"Submitted", "Rejected">>, <<"Submitted", "Failed">>,
         <<"Submitted", "Cancelled">>, <<"Submitted", "Expired">>,
         <<"Acknowledged", "PartiallyFilled">>, <<"Acknowledged", "Filled">>,
         <<"Acknowledged", "Cancelled">>, <<"Acknowledged", "Rejected">>,
         <<"PartiallyFilled", "Filled">>, <<"PartiallyFilled", "Cancelled">>}

is_valid_transition(current_state, to_state) ==
    IF is_terminal(current_state) THEN FALSE
    ELSE IF current_state = to_state THEN TRUE
    ELSE <<current_state, to_state>> \in
        {<<"Created", "Validated">>, <<"Created", "Rejected">>, <<"Created", "Failed">>,
         <<"Validated", "Submitted">>, <<"Validated", "Rejected">>, <<"Validated", "Cancelled">>,
         <<"Submitted", "Acknowledged">>, <<"Submitted", "Rejected">>, <<"Submitted", "Failed">>,
         <<"Submitted", "Cancelled">>, <<"Submitted", "Expired">>,
         <<"Acknowledged", "PartiallyFilled">>, <<"Acknowledged", "Filled">>,
         <<"Acknowledged", "Cancelled">>, <<"Acknowledged", "Rejected">>,
         <<"PartiallyFilled", "Filled">>, <<"PartiallyFilled", "Cancelled">>}

\* transition() keeping no record of a transition to the state the machine is in
transition_skips_self_record(m, to_state, reason, t) ==
    IF ~is_valid_transition(m.current_state, to_state)
    THEN [ok |-> FALSE, sm |-> m]
    ELSE [ok |-> TRUE,
          sm |-> [m EXCEPT
                    !.transitions = IF to_state = m.current_state THEN @
                                    ELSE Append(@, [from_state |-> m.current_state,
                                                    to_state |-> to_state,
                                                    reason |-> reason]),
                    !.current_state = to_state,
                    !.updated_at = t]]

\* transition() stamping updated_at before it validates
transition_stamps_first(m, to_state, reason, t) ==
    IF ~is_valid_transition(m.current_state, to_state)
    THEN [ok |-> FALSE, sm |-> [m EXCEPT !.updated_at = t]]
    ELSE [ok |-> TRUE,
          sm |-> [m EXCEPT
                    !.transitions = Append(@, [from_state |-> m.current_state,
                                               to_state |-> to_state,
                                               reason |-> reason]),
                    !.current_state = to_state,
                    !.updated_at = t]]

\* transition(): the result (ok: Ok(()), ~ok: Err(InvalidStateTransition)) and the
\* machine after it.  A StateTransition keeps from_state, to_state and reason; its
\* timestamp (equal to updated_at when it is pushed) and its empty metadata are left out.
transition(m, to_state, reason, t) ==
    IF ~is_valid_transition(m.current_state, to_state)
    THEN [ok |-> FALSE, sm |-> m]
    ELSE [ok |-> TRUE,
          sm |-> [m EXCEPT
                    !.transitions = Append(@, [from_state |-> m.current_state,
                                               to_state |-> to_state,
                                               reason |-> reason]),
                    !.current_state = to_state,
                    !.updated_at = t]]

time_in_state(m, t) == t - m.updated_at

is_active(m) == ~is_terminal(m.current_state)

(* ------------------------------ the clock ------------------------------ *)

\* Bookkeeping of the reconciler's passes (rec.quiet, rec.dirty): something other
\* than the reconciler ran or time passed, so the pass in progress, and the run of
\* consecutive undisturbed passes, are no longer undisturbed.
Disturb(r) == [r EXCEPT !.quiet = 0, !.dirty = (r.pc # "idle")]

Tick ==
    /\ now < MaxTime
    /\ now' = now + 1
    /\ rec' = Disturb(rec)
    /\ UNCHANGED <<extVars, sm, lastCall, orders, exchange_id_map, events, submits, tasks, cancels>>

\* No PreTradeValidator and no Portfolio has been constructed
NotBuilt == [built |-> FALSE]

InitOther ==
    /\ bt = NotBuilt
    /\ costCall = NotBuilt
    /\ ord = NotBuilt
    /\ twap = NotBuilt

InitExt ==
    /\ limits = NotBuilt
    /\ portfolio_state = NotBuilt
    /\ validated = NotBuilt
    /\ portfolio = NotBuilt
    /\ lastFill = NotBuilt
    /\ InitOther

(* ------------------ SpecSM: one state machine, any call ----------------- *)

NoCall == [to |-> "Created", ok |-> TRUE, before |-> OrderStateMachine_new("o1", 0), n |-> 0]

InitOM ==
    /\ orders = << >>
    /\ exchange_id_map = << >>
    /\ events = << >>
    /\ submits = << >>
    /\ tasks = << >>
    /\ cancels = << >>
    /\ rec = [pc |-> "idle", active |-> {}, cur |-> "none", passes |-> 0, timedOut |-> {},
              quiet |-> 0, dirty |-> FALSE, emitted |-> 0, changed |-> FALSE]

InitSM ==
    /\ now = 0
    /\ sm = OrderStateMachine_new("o1", 0)
    /\ lastCall = NoCall
    /\ InitOM
    /\ InitExt

CallTransition(to_state) ==
    /\ lastCall.n < MaxTransitions
    /\ LET r == transition(sm, to_state, "call", now) IN
        /\ sm' = r.sm
        /\ lastCall' = [to |-> to_state, ok |-> r.ok, before |-> sm, n |-> lastCall.n + 1]
    /\ UNCHANGED <<extVars, now, omVars>>

NextSM ==
    \/ Tick
    \/ \E to_state \in OrderState : CallTransition(to_state)

SpecSM == InitSM /\ [][NextSM]_vars

(* --------------------------- order_manager.rs --------------------------- *)

OrderEvent(type, order_id) == [type |-> type, order_id |-> order_id]

\* HashMap::insert: the entry of key k is created or replaced
MapInsert(map, k, v) == [x \in (DOMAIN map) \cup {k} |-> IF x = k THEN v ELSE map[x]]

\* The Order is kept as its id and its filled_quantity (zero from Order::new);
\* no method of the manager writes to it
ManagedOrder(order_id, state_machine, t) ==
    [order |-> [id |-> order_id, filled_quantity |-> 0],
     state_machine |-> state_machine,
     retry_count |-> 0,
     last_sync |-> t]

\* managed.state_machine.transition(to_state, reason) under orders.write(), on the
\* entry `if let Some(managed) = orders.get_mut(&order_id)` finds
TransitionIn(map, order_id, to_state, reason, t) ==
    IF order_id \in DOMAIN map
    THEN LET r == transition(map[order_id].state_machine, to_state, reason, t) IN
         [ok |-> r.ok, orders |-> [map EXCEPT ![order_id].state_machine = r.sm]]
    ELSE [ok |-> TRUE, orders |-> map]

\* submit_order, lines 97-115: new state machine, Created -> Validated, orders.insert
submit_order_insert(order_id) ==
    /\ LET r == transition(OrderStateMachine_new(order_id, now), "Validated",
                           "Pre-trade checks passed", now) IN
        IF r.ok
        THEN /\ orders' = MapInsert(orders, order_id, ManagedOrder(order_id, r.sm, now))
             /\ submits' = Append(submits, [id |-> order_id, pc |-> "inserted"])
        ELSE /\ orders' = orders
             /\ submits' = Append(submits, [id |-> order_id, pc |-> "err"])
    /\ rec' = Disturb(rec)
    /\ UNCHANGED <<extVars, now, sm, lastCall, exchange_id_map, events, tasks, cancels>>

\* submit_order, lines 118-140: event_tx.send(OrderCreated), tokio::spawn of
\* submit_to_exchange, return Ok(order_id).  No other task reads what the spawn
\* writes, so the send and the spawn are one step.
submit_order_emit(i) ==
    /\ submits[i].pc = "inserted"
    /\ events' = Append(events, OrderEvent("OrderCreated", submits[i].id))
    /\ tasks' = Append(tasks, [id |-> submits[i].id, pc |-> "spawned"])
    /\ submits' = [submits EXCEPT ![i].pc = "returned"]
    /\ rec' = Disturb(rec)
    /\ UNCHANGED <<extVars, now, sm, lastCall, orders, exchange_id_map, cancels>>

\* submit_to_exchange, lines 146-159: read the order, then under orders.write()
\* transition to Submitted; an error leaves through `?`
submit_to_exchange_submit(i) ==
    /\ tasks[i].pc = "spawned"
    /\ IF tasks[i].id \notin DOMAIN orders
       THEN /\ tasks' = [tasks EXCEPT ![i].pc = "err"]
            /\ orders' = orders
       ELSE LET r == TransitionIn(orders, tasks[i].id, "Submitted", "Sending to exchange", now) IN
            /\ orders' = r.orders
            /\ tasks' = [tasks EXCEPT ![i].pc = IF r.ok THEN "submitted" ELSE "err"]
    /\ rec' = Disturb(rec)
    /\ UNCHANGED <<extVars, now, sm, lastCall, exchange_id_map, events, submits, cancels>>

\* submit_to_exchange, lines 161-169: send OrderSubmitted, then sleep 100 ms
submit_to_exchange_emit_submitted(i) ==
    /\ tasks[i].pc = "submitted"
    /\ events' = Append(events, OrderEvent("OrderSubmitted", tasks[i].id))
    /\ tasks' = [tasks EXCEPT ![i].pc = "sleeping"]
    /\ rec' = Disturb(rec)
    /\ UNCHANGED <<extVars, now, sm, lastCall, orders, exchange_id_map, submits, cancels>>

\* submit_to_exchange acknowledging without recording the exchange id
submit_to_exchange_ack_unmapped(i) ==
    /\ tasks[i].pc = "sleeping"
    /\ LET r == TransitionIn(orders, tasks[i].id, "Acknowledged", "Exchange confirmed", now) IN
        /\ orders' = r.orders
        /\ tasks' = [tasks EXCEPT ![i].pc = IF r.ok THEN "mapped" ELSE "err"]
        /\ exchange_id_map' = exchange_id_map
    /\ rec' = Disturb(rec)
    /\ UNCHANGED <<extVars, now, sm, lastCall, events, submits, cancels>>

\* submit_to_exchange, lines 171-182: under orders.write() transition to
\* Acknowledged (an error leaves through `?`), then exchange_id_map.insert.  No
\* other task reads exchange_id_map, so the two lock sections are one step.
submit_to_exchange_ack(i) ==
    /\ tasks[i].pc = "sleeping"
    /\ LET r == TransitionIn(orders, tasks[i].id, "Acknowledged", "Exchange confirmed", now) IN
        /\ orders' = r.orders
        /\ tasks' = [tasks EXCEPT ![i].pc = IF r.ok THEN "mapped" ELSE "err"]
        /\ exchange_id_map' = IF r.ok
                               THEN MapInsert(exchange_id_map, <<"OKX", tasks[i].id>>, tasks[i].id)
                               ELSE exchange_id_map
    /\ rec' = Disturb(rec)
    /\ UNCHANGED <<extVars, now, sm, lastCall, events, submits, cancels>>

\* submit_to_exchange, lines 184-189: send OrderAcknowledged, return Ok(())
submit_to_exchange_emit_ack(i) ==
    /\ tasks[i].pc = "mapped"
    /\ events' = Append(events, OrderEvent("OrderAcknowledged", tasks[i].id))
    /\ tasks' = [tasks EXCEPT ![i].pc = "done"]
    /\ rec' = Disturb(rec)
    /\ UNCHANGED <<extVars, now, sm, lastCall, orders, exchange_id_map, submits, cancels>>

\* the spawned task, lines 131-137: submit_to_exchange returned Err: send OrderFailed
spawned_task_failed(i) ==
    /\ tasks[i].pc = "err"
    /\ events' = Append(events, OrderEvent("OrderFailed", tasks[i].id))
    /\ tasks' = [tasks EXCEPT ![i].pc = "failed"]
    /\ rec' = Disturb(rec)
    /\ UNCHANGED <<extVars, now, sm, lastCall, orders, exchange_id_map, submits, cancels>>

\* cancel_order, lines 195-206: under orders.read(), OrderNotFound or the can_cancel check
cancel_order_check(order_id) ==
    /\ cancels' = Append(cancels,
          IF order_id \notin DOMAIN orders
          THEN [id |-> order_id, pc |-> "err_not_found", seen |-> "none"]
          ELSE LET s == orders[order_id].state_machine.current_state IN
               [id |-> order_id, pc |-> IF can_cancel(s) THEN "checked" ELSE "err_state", seen |-> s])
    /\ rec' = Disturb(rec)
    /\ UNCHANGED <<extVars, now, sm, lastCall, orders, exchange_id_map, events, submits, tasks>>

\* cancel_order dropping the result of the transition (let _ =) instead of `?`
cancel_order_transition_drops_error(i) ==
    /\ cancels[i].pc = "checked"
    /\ LET r == TransitionIn(orders, cancels[i].id, "Cancelled", "User requested", now) IN
        /\ orders' = r.orders
        /\ cancels' = [cancels EXCEPT ![i].pc = "transitioned"]
    /\ rec' = Disturb(rec)
    /\ UNCHANGED <<extVars, now, sm, lastCall, exchange_id_map, events, submits, tasks>>

\* cancel_order, lines 214-219: under orders.write() transition to Cancelled; an error
\* leaves through `?`
cancel_order_transition(i) ==
    /\ cancels[i].pc = "checked"
    /\ LET r == TransitionIn(orders, cancels[i].id, "Cancelled", "User requested", now) IN
        /\ orders' = r.orders
        /\ cancels' = [cancels EXCEPT ![i].pc = IF r.ok THEN "transitioned" ELSE "err_transition"]
    /\ rec' = Disturb(rec)
    /\ UNCHANGED <<extVars, now, sm, lastCall, exchange_id_map, events, submits, tasks>>

\* cancel_order, lines 221-223: send OrderCancelled, return Ok(())
cancel_order_emit(i) ==
    /\ cancels[i].pc = "transitioned"
    /\ events' = Append(events, OrderEvent("OrderCancelled", cancels[i].id))
    /\ cancels' = [cancels EXCEPT ![i].pc = "ok"]
    /\ rec' = Disturb(rec)
    /\ UNCHANGED <<extVars, now, sm, lastCall, orders, exchange_id_map, submits, tasks>>

\* reconcile, lines 263-269 (after ticker.tick() of start_reconciliation): the ids of
\* the active orders, in the order the HashMap yields them
reconcile_collect ==
    /\ rec.pc = "idle"
    /\ rec.passes < MaxReconciles
    /\ rec' = [rec EXCEPT !.pc = "loop",
                          !.active = {id \in DOMAIN orders : is_active(orders[id].state_machine)},
                          !.passes = @ + 1,
                          !.timedOut = {},
                          !.dirty = FALSE,
                          !.emitted = 0,
                          !.changed = FALSE]
    /\ UNCHANGED <<extVars, now, sm, lastCall, orders, exchange_id_map, events, submits, tasks, cancels>>

\* reconcile, lines 273-281: should_timeout of the next id, under orders.read()
should_timeout(map, order_id, t) ==
    IF order_id \in DOMAIN map
    THEN time_in_state(map[order_id].state_machine, t) > order_timeout_secs
    ELSE FALSE

reconcile_check(order_id) ==
    /\ rec.pc = "loop"
    /\ order_id \in rec.active
    /\ rec' = IF should_timeout(orders, order_id, now)
              THEN [rec EXCEPT !.pc = "timeout", !.cur = order_id,
                               !.active = @ \ {order_id},
                               !.timedOut = @ \cup {order_id}]
              ELSE [rec EXCEPT !.active = @ \ {order_id}]
    /\ UNCHANGED <<extVars, now, sm, lastCall, orders, exchange_id_map, events, submits, tasks, cancels>>

\* reconcile, lines 283-290: under orders.write(), transition to Expired with the
\* result dropped (let _ =), and OrderExpired sent before the guard is released
reconcile_expire ==
    /\ rec.pc = "timeout"
    /\ LET r == TransitionIn(orders, rec.cur, "Expired", "Timeout", now) IN
        /\ orders' = r.orders
        /\ events' = Append(events, OrderEvent("OrderExpired", rec.cur))
        /\ rec' = [rec EXCEPT !.pc = "loop", !.cur = "none",
                              !.emitted = @ + 1,
                              !.changed = @ \/ (r.orders # orders)]
    /\ UNCHANGED <<extVars, now, sm, lastCall, exchange_id_map, submits, tasks, cancels>>

\* reconcile, lines 296-297: the loop over active_orders is over, return Ok(())
reconcile_done ==
    /\ rec.pc = "loop"
    /\ rec.active = {}
    /\ rec' = [rec EXCEPT !.pc = "idle",
                          !.quiet = IF rec.dirty THEN 0 ELSE IF @ < 2 THEN @ + 1 ELSE @]
    /\ UNCHANGED <<extVars, now, sm, lastCall, orders, exchange_id_map, events, submits, tasks, cancels>>

\* get_active_orders, under orders.read(): the managed orders whose machine
\* is_active(), each as (order, current_state)
get_active_orders(map) ==
    {<<map[id].order, map[id].state_machine.current_state>> :
        id \in {x \in DOMAIN map : is_active(map[x].state_machine)}}

\* get_stats, under orders.read(): one count per arm of the match on current_state,
\* every state but Filled, Cancelled, Rejected and Failed falling into the `_` arm
get_stats(map) ==
    LET count(S) == Cardinality({id \in DOMAIN map : map[id].state_machine.current_state \in S}) IN
    [total_orders |-> Cardinality(DOMAIN map),
     active_orders |-> count(OrderState \ {"Filled", "Cancelled", "Rejected", "Failed"}),
     filled_orders |-> count({"Filled"}),
     cancelled_orders |-> count({"Cancelled"}),
     rejected_orders |-> count({"Rejected"}),
     failed_orders |-> count({"Failed"})]

\* The order lifecycle at rest: what the specifications of the validator and of
\* the portfolio start from and never change
InitLifecycle ==
    /\ now = 0
    /\ sm = OrderStateMachine_new("o1", 0)
    /\ lastCall = NoCall
    /\ InitOM

InitOMSpec ==
    /\ InitLifecycle
    /\ InitExt

OMSteps ==
    \/ Tick
    \/ \E i \in DOMAIN submits : submit_order_emit(i)
    \/ \E i \in DOMAIN tasks : submit_to_exchange_submit(i)
    \/ \E i \in DOMAIN tasks : submit_to_exchange_emit_submitted(i)
    \/ \E i \in DOMAIN tasks : submit_to_exchange_ack(i)
    \/ \E i \in DOMAIN tasks : submit_to_exchange_emit_ack(i)
    \/ \E i \in DOMAIN tasks : spawned_task_failed(i)
    \/ \E i \in DOMAIN cancels : cancel_order_transition(i)
    \/ \E i \in DOMAIN cancels : cancel_order_emit(i)
    \/ reconcile_collect
    \/ \E order_id \in OrderIds : reconcile_check(order_id)
    \/ reconcile_expire
    \/ reconcile_done

\* Every submitted Order carries an id the manager does not hold yet
SubmitFresh ==
    \E order_id \in OrderIds \ DOMAIN orders : submit_order_insert(order_id)

CancelCall(max) ==
    /\ Len(cancels) < max
    /\ \E order_id \in OrderIds : cancel_order_check(order_id)

NextOM ==
    \/ SubmitFresh
    \/ CancelCall(MaxCancels)
    \/ OMSteps

SpecOM == InitOMSpec /\ [][NextOM]_vars

\* submit_order is also called with an id the manager already holds
SubmitHeld ==
    /\ Len(submits) < Cardinality(OrderIds) + MaxResubmits
    /\ \E order_id \in DOMAIN orders : submit_order_insert(order_id)

NextOMReuse ==
    \/ SubmitFresh
    \/ SubmitHeld
    \/ CancelCall(ReuseMaxCancels)
    \/ OMSteps

SpecOMReuse == InitOMSpec /\ [][NextOMReuse]_vars

(* ------------------------------- Decimal ------------------------------- *)

\* rust_decimal::Decimal as a count of 1/DecUnit: sums, differences and
\* comparisons are exact, a product or a quotient is rounded to the nearest
\* 1/DecUnit (ties to even), as Decimal rounds to its last digit.  Quantities
\* are whole numbers, so every product the code forms with a quantity is exact.
DecUnit == 100

Dec(n) == n * DecUnit

DecAbs(a) == IF a < 0 THEN -a ELSE a

\* n / d for n >= 0, d > 0, rounded to the nearest integer, ties to even
RoundDiv(n, d) ==
    LET q == n \div d
        r == n % d
    IN IF 2 * r > d \/ (2 * r = d /\ q % 2 = 1) THEN q + 1 ELSE q

DecMul(a, b) ==
    IF a * b < 0 THEN -RoundDiv(-(a * b), DecUnit) ELSE RoundDiv(a * b, DecUnit)

\* a / b for a >= 0, b > 0
DecDiv(a, b) == RoundDiv(a * DecUnit, b)

RECURSIVE DecSum(_)
DecSum(seq) == IF seq = << >> THEN 0 ELSE seq[1] + DecSum(Tail(seq))

(* ----------------------------- validators.rs ---------------------------- *)

Symbols == {"BTC-USDT", "ETH-USDT"}

ViolationSeverity == {"Critical", "Warning", "Info"}

\* RiskViolation without its message (the Display text of the error)
RiskViolation(severity, rule) == [severity |-> severity, rule |-> rule]

\* ValidationResult::default()
ValidationResult_default == [violations |-> << >>]

add_violation(result, violation) == [result EXCEPT !.violations = Append(@, violation)]

has_critical_violations(result) ==
    \E i \in 1..Len(result.violations) : result.violations[i].severity = "Critical"

\* is_valid() accepting only a result without any violation
is_valid_no_violation(result) == result.violations = << >>

is_valid(result) == ~has_critical_violations(result)

has_warnings(result) ==
    \E i \in 1..Len(result.violations) : result.violations[i].severity = "Warning"

\* order.price.map(as_decimal).unwrap_or(0) * order.quantity; an Option is the
\* empty sequence for None and a one-element sequence for Some
order_value(order) == DecMul(IF order.price = << >> THEN 0 ELSE order.price[1], order.quantity)

\* the quantity of the first position on the symbol, or zero
current_position(order, p) ==
    LET ks == {k \in 1..Len(p.positions) : p.positions[k].symbol = order.symbol} IN
    IF ks = {} THEN 0
    ELSE p.positions[CHOOSE k \in ks : \A m \in ks : k <= m].quantity

\* The check_* operators are TRUE for Ok(()) and FALSE for Err(_)
check_position_size(l, order, p) ==
    IF order.symbol \in DOMAIN l.max_position_size
    THEN LET new_position == IF order.side = "Buy"
                             THEN current_position(order, p) + order.quantity
                             ELSE DecAbs(current_position(order, p) - order.quantity)
         IN ~(new_position > l.max_position_size[order.symbol])
    ELSE TRUE

check_leverage(l, order, p) ==
    LET total_exposure ==
            DecSum([k \in 1..Len(p.positions) |->
                        DecMul(p.positions[k].quantity, p.positions[k].current_price)])
            + order_value(order)
        leverage == IF p.total_equity > 0 THEN DecDiv(total_exposure, p.total_equity) ELSE 0
    IN ~(leverage > l.max_leverage)

\* check_daily_loss refusing a loss equal to the limit
check_daily_loss_inclusive(l, p) == ~(p.daily_pnl <= -l.daily_loss_limit)

check_daily_loss(l, p) == ~(p.daily_pnl < -l.daily_loss_limit)

concentration_pct(order, p) ==
    IF p.total_equity > 0
    THEN DecMul(DecDiv(order_value(order), p.total_equity), Dec(100))
    ELSE Dec(100)

\* a breach is logged with warn! and the function returns Ok(()) all the same
check_concentration(l, order, p) ==
    IF concentration_pct(order, p) > l.max_concentration_pct THEN TRUE ELSE TRUE

check_margin(l, order, p) ==
    LET required_margin == DecMul(order_value(order), l.min_margin_ratio) IN
    ~(p.available_margin < required_margin)

has_existing(order, p) == \E k \in 1..Len(p.positions) : p.positions[k].symbol = order.symbol

\* a breach is logged with warn! and the function returns Ok(()) all the same
check_max_positions(l, order, p) ==
    IF ~has_existing(order, p) /\ Len(p.positions) >= l.max_open_positions THEN TRUE ELSE TRUE

\* `if let Err(e) = check { result.add_violation(..) }`
AddIfErr(result, ok, severity, rule) ==
    IF ok THEN result ELSE add_violation(result, RiskViolation(severity, rule))

\* validate_order returning at the first check that fails
validate_order_short_circuits(l, order, p) ==
    IF ~check_position_size(l, order, p)
    THEN add_violation(ValidationResult_default, RiskViolation("Critical", "Position Size Limit"))
    ELSE IF ~check_leverage(l, order, p)
    THEN add_violation(ValidationResult_default, RiskViolation("Critical", "Leverage Limit"))
    ELSE IF ~check_daily_loss(l, p)
    THEN add_violation(ValidationResult_default, RiskViolation("Critical", "Daily Loss Limit"))
    ELSE IF ~check_margin(l, order, p)
    THEN add_violation(ValidationResult_default, RiskViolation("Critical", "Margin Requirement"))
    ELSE ValidationResult_default

validate_order(l, order, p) ==
    LET r1 == AddIfErr(ValidationResult_default, check_position_size(l, order, p),
                       "Critical", "Position Size Limit")
        r2 == AddIfErr(r1, check_leverage(l, order, p), "Critical", "Leverage Limit")
        r3 == AddIfErr(r2, check_daily_loss(l, p), "Critical", "Daily Loss Limit")
        r4 == AddIfErr(r3, check_concentration(l, order, p), "Warning", "Concentration Limit")
        r5 == AddIfErr(r4, check_margin(l, order, p), "Critical", "Margin Requirement")
        r6 == AddIfErr(r5, check_max_positions(l, order, p), "Warning", "Maximum Positions")
    IN r6

(* ------------- SpecRisk: validate_order on any order and snapshot ------------- *)

MaxAddedViolations == 2

\* RiskLimits::default() with the money amounts scaled down, with and without a
\* position cap on one symbol
RiskLimitsSet ==
    {[max_position_size |-> m,
      max_leverage |-> Dec(3),
      daily_loss_limit |-> Dec(50),
      max_concentration_pct |-> Dec(25),
      max_open_positions |-> 1,
      min_margin_ratio |-> 15] :
        m \in {<< >>, [s \in {"BTC-USDT"} |-> Dec(2)]}}

\* PortfolioState, its positions with the fields of a Position the validator reads
PortfolioStates ==
    [total_equity : {0, Dec(40), Dec(100)},
     available_margin : {Dec(5), Dec(50)},
     positions : {<< >>, <<[symbol |-> "BTC-USDT", quantity |-> Dec(1), current_price |-> Dec(10)]>>},
     daily_pnl : {0, -Dec(50), -Dec(60)}]

\* The fields of an Order the validator reads, and its id
RiskOrders ==
    [id : OrderIds,
     symbol : Symbols,
     side : {"Buy", "Sell"},
     price : {<< >>, <<Dec(10)>>, <<Dec(50)>>},
     quantity : {Dec(1), Dec(3)}]

Validation(l, order, p) == [order |-> order, result |-> validate_order(l, order, p), added |-> 0]

InitRisk ==
    /\ InitLifecycle
    /\ limits \in RiskLimitsSet
    /\ portfolio_state \in PortfolioStates
    /\ validated = NotBuilt
    /\ portfolio = NotBuilt
    /\ lastFill = NotBuilt
    /\ InitOther

validate_order_call(order) ==
    /\ validated' = Validation(limits, order, portfolio_state)
    /\ UNCHANGED <<lifecycleVars, limits, portfolio_state, pfVars, otherVars>>

\* ValidationResult::add_violation called on the returned result (it is pub)
add_violation_call(severity) ==
    /\ validated # NotBuilt
    /\ validated.added < MaxAddedViolations
    /\ validated' = [validated EXCEPT
                        !.result = add_violation(@, RiskViolation(severity, "Custom")),
                        !.added = @ + 1]
    /\ UNCHANGED <<lifecycleVars, limits, portfolio_state, pfVars, otherVars>>

NextRisk ==
    \/ \E order \in RiskOrders : validate_order_call(order)
    \/ \E severity \in ViolationSeverity : add_violation_call(severity)

SpecRisk == InitRisk /\ [][NextRisk]_vars

(* ---- SpecOMRisk: the order manager handed an order the validator has seen ---- *)

\* The strategy has run validate_order on the order it hands to submit_order
InitOMRisk ==
    /\ InitLifecycle
    /\ limits \in {l \in RiskLimitsSet : l.max_position_size = << >>}
    /\ portfolio_state \in {p \in PortfolioStates :
                               /\ p.total_equity = Dec(100)
                               /\ p.available_margin = Dec(50)
                               /\ p.positions = << >>}
    /\ \E order \in {o \in RiskOrders : o.symbol = "BTC-USDT" /\ o.side = "Buy"
                                         /\ o.price = <<Dec(10)>> /\ o.quantity = Dec(1)} :
          validated = Validation(limits, order, portfolio_state)
    /\ portfolio = NotBuilt
    /\ lastFill = NotBuilt
    /\ InitOther

SpecOMRisk == InitOMRisk /\ [][NextOM]_vars

(* ------------------------- types.rs, position.rs ------------------------ *)

\* Price::new is Ok for a positive value, Quantity::new for a non-negative one
Price_new_ok(value) == ~(value <= 0)

Quantity_new_ok(value) == ~(value < 0)

PositionSide == {"Long", "Short", "Net"}

\* Position::new without its ids, its timestamps and the fields nothing writes
Position_new(symbol, side, quantity, entry_price) ==
    [symbol |-> symbol,
     side |-> side,
     quantity |-> quantity,
     avg_entry_price |-> entry_price,
     current_price |-> entry_price,
     unrealized_pnl |-> 0]

calculate_unrealized_pnl(position) ==
    LET price_diff == position.current_price - position.avg_entry_price
        qty == position.quantity
    IN CASE position.side = "Long" -> DecMul(price_diff, qty)
         [] position.side = "Short" -> DecMul(-price_diff, qty)
         [] position.side = "Net" -> DecMul(price_diff, qty)

update_price(position, current_price) ==
    LET p == [position EXCEPT !.current_price = current_price] IN
    [p EXCEPT !.unrealized_pnl = calculate_unrealized_pnl(p)]

(* ------------------------------ portfolio.rs ----------------------------- *)

MapRemove(map, k) == [x \in (DOMAIN map) \ {k} |-> map[x]]

\* the sum of f[x] over the keys of the map f
RECURSIVE SumOver(_)
SumOver(f) ==
    IF DOMAIN f = {} THEN 0
    ELSE LET x == CHOOSE y \in DOMAIN f : TRUE IN f[x] + SumOver(MapRemove(f, x))

Portfolio_new(initial_capital) ==
    [initial_capital |-> initial_capital,
     cash |-> initial_capital,
     positions |-> << >>,
     realized_pnl |-> 0,
     total_commission |-> 0,
     total_slippage |-> 0,
     equity_curve |-> << >>,
     current_prices |-> << >>]

total_equity(pf) ==
    pf.cash + SumOver([s \in DOMAIN pf.positions |->
                          DecMul(pf.positions[s].quantity, pf.positions[s].current_price)])

unrealized_pnl(pf) == SumOver([s \in DOMAIN pf.positions |-> pf.positions[s].unrealized_pnl])

total_pnl(pf) == pf.realized_pnl + unrealized_pnl(pf)

\* The outcome of a call: Ok(()), Err(_), or a panic that unwinds out of the
\* call, and the Portfolio the call leaves behind
Outcome(result, pf) == [result |-> result, pf |-> pf]

\* apply_fill, the Buy arm (lines 56-85)
apply_fill_buy(pf, order, fill) ==
    LET cost == DecMul(fill.price, fill.quantity)
        total_cost == cost + fill.commission + fill.slippage
    IN
    IF pf.cash < total_cost THEN Outcome("Err", pf)
    ELSE
    LET paid == [pf EXCEPT !.cash = @ - total_cost] IN
    \* positions.entry(symbol).or_insert_with(|| Position::new(.., Quantity::new(0).unwrap(),
    \* Price::new(0).unwrap())): the closure runs when the symbol has no entry
    IF order.symbol \notin DOMAIN pf.positions /\ ~(Quantity_new_ok(0) /\ Price_new_ok(0))
    THEN Outcome("Panic", paid)
    ELSE
    LET entered == IF order.symbol \in DOMAIN pf.positions
                   THEN paid
                   ELSE [paid EXCEPT !.positions =
                            MapInsert(@, order.symbol, Position_new(order.symbol, "Long", 0, 0))]
        position == entered.positions[order.symbol]
        old_quantity == position.quantity
        old_cost == DecMul(old_quantity, position.avg_entry_price)
        new_quantity == old_quantity + fill.quantity
    IN
    IF new_quantity = 0 THEN Outcome("Panic", entered)      \* Decimal division by zero
    ELSE
    LET new_avg_price == DecDiv(old_cost + cost, new_quantity) IN
    IF ~Quantity_new_ok(new_quantity) THEN Outcome("Err", entered)
    ELSE
    LET sized == [entered EXCEPT !.positions[order.symbol].quantity = new_quantity] IN
    IF ~Price_new_ok(new_avg_price) THEN Outcome("Err", sized)
    ELSE Outcome("Ok", [sized EXCEPT !.positions[order.symbol].avg_entry_price = new_avg_price])

\* the Sell arm leaving a position of quantity zero in the map
apply_fill_sell_keeps_empty(pf, order, fill) ==
    LET cost == DecMul(fill.price, fill.quantity) IN
    IF order.symbol \notin DOMAIN pf.positions THEN Outcome("Err", pf)
    ELSE
    LET position == pf.positions[order.symbol]
        position_qty == position.quantity
    IN
    IF position_qty < fill.quantity THEN Outcome("Err", pf)
    ELSE
    LET entry_cost == DecMul(fill.quantity, position.avg_entry_price)
        exit_proceeds == cost
        gross_pnl == exit_proceeds - entry_cost
        net_pnl == gross_pnl - fill.commission - fill.slippage
        credited == [pf EXCEPT !.realized_pnl = @ + net_pnl,
                               !.cash = @ + exit_proceeds - fill.commission - fill.slippage]
        new_qty == position_qty - fill.quantity
    IN
    IF new_qty < 0
    THEN Outcome("Ok", [credited EXCEPT !.positions = MapRemove(@, order.symbol)])
    ELSE IF ~Quantity_new_ok(new_qty) THEN Outcome("Err", credited)
    ELSE Outcome("Ok", [credited EXCEPT !.positions[order.symbol].quantity = new_qty])

\* apply_fill, the Sell arm (lines 87-122)
apply_fill_sell(pf, order, fill) ==
    LET cost == DecMul(fill.price, fill.quantity) IN
    IF order.symbol \notin DOMAIN pf.positions THEN Outcome("Err", pf)
    ELSE
    LET position == pf.positions[order.symbol]
        position_qty == position.quantity
    IN
    IF position_qty < fill.quantity THEN Outcome("Err", pf)
    ELSE
    LET entry_cost == DecMul(fill.quantity, position.avg_entry_price)
        exit_proceeds == cost
        gross_pnl == exit_proceeds - entry_cost
        net_pnl == gross_pnl - fill.commission - fill.slippage
        credited == [pf EXCEPT !.realized_pnl = @ + net_pnl,
                               !.cash = @ + exit_proceeds - fill.commission - fill.slippage]
        new_qty == position_qty - fill.quantity
    IN
    IF new_qty <= 0
    THEN Outcome("Ok", [credited EXCEPT !.positions = MapRemove(@, order.symbol)])
    ELSE IF ~Quantity_new_ok(new_qty) THEN Outcome("Err", credited)
    ELSE Outcome("Ok", [credited EXCEPT !.positions[order.symbol].quantity = new_qty])

\* apply_fill (lines 51-134): the arm of the order's side, then the cost totals
\* and the equity curve
apply_fill(pf, order, fill) ==
    LET arm == IF order.side = "Buy"
               THEN apply_fill_buy(pf, order, fill)
               ELSE apply_fill_sell(pf, order, fill)
    IN
    IF arm.result # "Ok" THEN arm
    ELSE LET tracked == [arm.pf EXCEPT !.total_commission = @ + fill.commission,
                                       !.total_slippage = @ + fill.slippage]
         IN Outcome("Ok", [tracked EXCEPT
                              !.equity_curve = Append(@, <<fill.timestamp, total_equity(tracked)>>)])

\* update_prices (lines 137-148); the entries of `prices` touch different keys,
\* so the order in which the HashMap yields them does not matter
update_prices(pf, prices) ==
    [pf EXCEPT
        !.current_prices = [s \in (DOMAIN @) \cup (DOMAIN prices) |->
                               IF s \in DOMAIN prices THEN prices[s] ELSE @[s]],
        !.positions = [s \in DOMAIN @ |->
                          IF s \in DOMAIN prices /\ Price_new_ok(prices[s])
                          THEN update_price(@[s], prices[s])
                          ELSE @[s]]]

(* --------------- SpecPF: a Portfolio under any fills and prices --------------- *)

MaxFills == 2
MaxPriceUpdates == 1
MaxFillTime == 2

\* A Portfolio::new whose caller has put the positions `held` in and paid their
\* entry value from cash
Portfolio_holding(initial_capital, held) ==
    LET entry_value(position) == DecMul(position.avg_entry_price, position.quantity) IN
    [Portfolio_new(initial_capital) EXCEPT
        !.positions = held,
        !.cash = @ - SumOver([s \in DOMAIN held |-> entry_value(held[s])])]

\* What `positions` holds when the Portfolio is put to use: nothing
\* (Portfolio::new), or, positions being a pub field, a Position::new the caller
\* has put in and paid from cash
InitPF ==
    /\ InitLifecycle
    /\ limits = NotBuilt
    /\ portfolio_state = NotBuilt
    /\ validated = NotBuilt
    /\ \E initial_capital \in {Dec(10)},
          held \in {<< >>, [s \in {"BTC-USDT"} |-> Position_new("BTC-USDT", "Long", Dec(2), Dec(2))]} :
          portfolio = Portfolio_holding(initial_capital, held)
    /\ lastFill = [op |-> "new", result |-> "Ok", n |-> 0, updates |-> 0, timestamp |-> 0,
                   clean |-> TRUE]
    /\ InitOther

\* What the next call remembers of the call before it
Earlier(call) ==
    IF call.op = "apply_fill"
    THEN <<[order |-> call.order, fill |-> call.fill, result |-> call.result,
            cash |-> call.before.cash, realized_pnl |-> call.before.realized_pnl,
            held |-> DOMAIN call.before.positions]>>
    ELSE << >>

\* apply_fill as fill_order calls it (engine.rs:451): the fill is stamped with the
\* timestamp of the event being processed, and load_data has sorted the events: the
\* event of the fill before, or a later one (the next timestamp stands for all later ones)
apply_fill_call(order, fill) ==
    /\ lastFill.result # "Panic"
    /\ lastFill.n < MaxFills
    /\ fill.timestamp \in {lastFill.timestamp, lastFill.timestamp + 1}
    /\ LET r == apply_fill(portfolio, order, fill) IN
        /\ portfolio' = r.pf
        /\ lastFill' = [op |-> "apply_fill", order |-> order, fill |-> fill,
                        result |-> r.result, before |-> portfolio, prev |-> Earlier(lastFill),
                        n |-> lastFill.n + 1, updates |-> lastFill.updates,
                        timestamp |-> fill.timestamp,
                        clean |-> lastFill.clean /\ r.result = "Ok"]
    /\ UNCHANGED <<lifecycleVars, riskVars, otherVars>>

update_prices_call(prices) ==
    /\ lastFill.result # "Panic"
    /\ lastFill.updates < MaxPriceUpdates
    /\ portfolio' = update_prices(portfolio, prices)
    /\ lastFill' = [op |-> "update_prices", prices |-> prices, result |-> "Ok",
                    before |-> portfolio, n |-> lastFill.n, updates |-> lastFill.updates + 1,
                    timestamp |-> lastFill.timestamp, clean |-> lastFill.clean]
    /\ UNCHANGED <<lifecycleVars, riskVars, otherVars>>

\* The Fill is as fill_order builds it, with the costs the cost model returns
NextPF ==
    LET FillCosts == {[commission |-> 0, slippage |-> 0],
                      [commission |-> Dec(1), slippage |-> DecUnit \div 2]}
        FillPrices == {Dec(2), Dec(3)}
        FillQuantities == {Dec(1), Dec(2)}
        PriceMaps == {[s \in S |-> v] : S \in {{"BTC-USDT"}, Symbols}, v \in FillPrices}
        FillOrders == [symbol : Symbols, side : {"Buy", "Sell"}]
        Fills ==
            {[price |-> p, quantity |-> q, commission |-> c.commission, slippage |-> c.slippage,
              timestamp |-> t] :
                p \in FillPrices, q \in FillQuantities, c \in FillCosts, t \in 1..MaxFillTime}
    IN
    \/ \E order \in FillOrders, fill \in Fills : apply_fill_call(order, fill)
    \/ \E prices \in PriceMaps : update_prices_call(prices)

SpecPF == InitPF /\ [][NextPF]_vars

(* ------------------------------ cost_model.rs ----------------------------- *)

\* The rates of the cost model have four and five decimals, so its Decimals are
\* exact rationals <<numerator, denominator>> in lowest terms, denominator > 0:
\* rust_decimal is exact on the sums and products formed here, and on the
\* quotients as long as they terminate, which the inputs below make them do.
RECURSIVE Gcd(_, _)
Gcd(a, b) == IF b = 0 THEN a ELSE Gcd(b, a % b)

Rat(n, d) == LET g == Gcd(DecAbs(n), d) IN <<n \div g, d \div g>>

RatZero == Rat(0, 1)

\* sums and comparisons over the common denominator, products cancelled crosswise,
\* so that no intermediate is larger than it has to be
RatAdd(a, b) ==
    LET g == Gcd(a[2], b[2]) IN
    Rat(a[1] * (b[2] \div g) + b[1] * (a[2] \div g), (a[2] \div g) * b[2])

RatMul(a, b) ==
    LET g == Gcd(DecAbs(a[1]), b[2])
        h == Gcd(DecAbs(b[1]), a[2])
    IN Rat((a[1] \div g) * (b[1] \div h), (a[2] \div h) * (b[2] \div g))

\* a / b for b # 0
RatDiv(a, b) == IF b[1] > 0 THEN RatMul(a, <<b[2], b[1]>>) ELSE RatMul(a, <<-b[2], -b[1]>>)

RatLt(a, b) ==
    LET g == Gcd(a[2], b[2]) IN a[1] * (b[2] \div g) < b[1] * (a[2] \div g)

\* Decimal::max
RatMax(a, b) == IF RatLt(a, b) THEN b ELSE a

OrderSide == {"Buy", "Sell"}

CommissionModel_calculate(model, order_type, price, quantity) ==
    LET notional == RatMul(price, quantity)
        rate == IF order_type \in {"Limit", "PostOnly"} THEN model.maker_rate ELSE model.taker_rate
        commission == RatMul(notional, rate)
    IN RatMax(commission, model.min_commission)

calculate_market(model, side, price, quantity, avg_volume) ==
    LET fixed_slippage == RatDiv(RatMul(price, model.fixed_bps), Rat(10000, 1))
        volume_ratio == IF RatLt(RatZero, avg_volume) THEN RatDiv(quantity, avg_volume) ELSE RatZero
        impact_slippage == RatMul(RatMul(price, model.impact_coefficient), volume_ratio)
        total_slippage == RatAdd(fixed_slippage, impact_slippage)
    IN RatMax(total_slippage, model.min_slippage)

calculate_limit(model, side, price, quantity) == RatZero

\* apply_slippage moving the price up whatever the side
apply_slippage_adds(model, side, price, slippage) == RatAdd(price, slippage)

apply_slippage(model, side, price, slippage) ==
    IF side = "Buy" THEN RatAdd(price, slippage) ELSE RatAdd(price, <<-slippage[1], slippage[2]>>)

\* CommissionModel::default() with SlippageModel::default()
CostModel_default ==
    [commission |->
        [maker_rate |-> Rat(1, 1000), taker_rate |-> Rat(15, 10000), min_commission |-> RatZero],
     slippage |->
        [fixed_bps |-> Rat(5, 1), impact_coefficient |-> Rat(1, 10000), min_slippage |-> RatZero]]

\* CommissionModel::okx_spot() with SlippageModel::conservative()
CostModel_okx_spot_conservative ==
    [commission |->
        [maker_rate |-> Rat(1, 1000), taker_rate |-> Rat(15, 10000), min_commission |-> RatZero],
     slippage |->
        [fixed_bps |-> Rat(10, 1), impact_coefficient |-> Rat(2, 10000), min_slippage |-> RatZero]]

\* CommissionModel::okx_futures() with SlippageModel::aggressive()
CostModel_okx_futures_aggressive ==
    [commission |->
        [maker_rate |-> Rat(2, 10000), taker_rate |-> Rat(5, 10000), min_commission |-> RatZero],
     slippage |->
        [fixed_bps |-> Rat(3, 1), impact_coefficient |-> Rat(5, 100000), min_slippage |-> RatZero]]

calculate_total_cost(model, order_type, side, price, quantity, avg_volume) ==
    LET commission == CommissionModel_calculate(model.commission, order_type, price, quantity)
        slippage == IF order_type = "Market"
                    THEN calculate_market(model.slippage, side, price, quantity, avg_volume)
                    ELSE calculate_limit(model.slippage, side, price, quantity)
        execution_price == apply_slippage(model.slippage, side, price, slippage)
    IN [execution_price |-> execution_price, commission |-> commission, slippage |-> slippage]

(* ------------- SpecCost: calculate_total_cost on any arguments ------------- *)

MaxCostCalls == 2

\* The arguments of a call: the three models the crate names and, the fields
\* being pub, one with a minimum slippage above what the rates give; Market and
\* an order type of the other arm; price, quantity and avg_volume are plain
\* Decimals, nothing keeps them positive
InitCost ==
    /\ InitLifecycle
    /\ limits = NotBuilt
    /\ portfolio_state = NotBuilt
    /\ validated = NotBuilt
    /\ portfolio = NotBuilt
    /\ lastFill = NotBuilt
    /\ bt = NotBuilt
    /\ ord = NotBuilt
    /\ twap = NotBuilt
    /\ \E model \in {CostModel_default, CostModel_okx_spot_conservative,
                     CostModel_okx_futures_aggressive,
                     [CostModel_default EXCEPT !.slippage.min_slippage = Rat(30, 1)]},
          order_type \in {"Market", "Limit"},
          price \in {Rat(50000, 1), Rat(2, 1), Rat(-2, 1)},
          quantity \in {Rat(1, 10), Rat(1, 1), Rat(2, 1)},
          avg_volume \in {RatZero, Rat(1, 1), Rat(10, 1)} :
          costCall = [model |-> model, order_type |-> order_type, price |-> price,
                      quantity |-> quantity, avg_volume |-> avg_volume,
                      returned |-> << >>, n |-> 0]

\* one call for the side given, the other arguments being those of the state
calculate_total_cost_call(side) ==
    /\ costCall.n < MaxCostCalls
    /\ costCall' = [costCall EXCEPT
                       !.returned = MapInsert(@, side,
                                       calculate_total_cost(costCall.model, costCall.order_type, side,
                                                            costCall.price, costCall.quantity,
                                                            costCall.avg_volume)),
                       !.n = @ + 1]
    /\ UNCHANGED <<lifecycleVars, riskVars, pfVars, bt, ord, twap>>

NextCost == \E side \in OrderSide : calculate_total_cost_call(side)

SpecCost == InitCost /\ [][NextCost]_vars

(* ------------------------------ models/order.rs ---------------------------- *)

OrderStatus == {"Created", "Submitted", "Partial", "Filled", "Cancelled", "Rejected", "Failed"}

\* Order::new, the Uuid it draws being `id` and Utc::now() being t; an Option is
\* << >> for None and <<v>> for Some(v)
Order_new(id, symbol, side, order_type, quantity, price, t) ==
    [id |-> id,
     okx_order_id |-> << >>,
     symbol |-> symbol,
     side |-> side,
     order_type |-> order_type,
     quantity |-> quantity,
     price |-> price,
     avg_fill_price |-> << >>,
     filled_quantity |-> 0,
     status |-> "Created",
     created_at |-> t,
     submitted_at |-> << >>,
     first_fill_at |-> << >>,
     completed_at |-> << >>,
     latency_ms |-> << >>]

Order_is_terminal(order) == order.status \in {"Filled", "Cancelled", "Rejected", "Failed"}

set_status(order, status, t) ==
    LET o == [order EXCEPT !.status = status] IN
    IF Order_is_terminal(o) /\ o.completed_at = << >>
    THEN [o EXCEPT !.completed_at = <<t>>]
    ELSE o

mark_submitted(order, okx_order_id, t) ==
    [order EXCEPT !.okx_order_id = <<okx_order_id>>,
                  !.submitted_at = <<t>>,
                  !.status = "Submitted"]

update_fill(order, filled_qty, avg_price, t) ==
    LET filled == [order EXCEPT !.filled_quantity = filled_qty,
                                !.avg_fill_price = <<avg_price>>]
        first == IF filled.first_fill_at = << >>
                 THEN [filled EXCEPT
                          !.first_fill_at = <<t>>,
                          !.latency_ms = IF filled.submitted_at # << >>
                                         THEN <<t - filled.submitted_at[1]>>
                                         ELSE @]
                 ELSE filled
    IN
    IF filled_qty >= first.quantity
    THEN [first EXCEPT !.status = "Filled", !.completed_at = <<t>>]
    ELSE IF filled_qty > 0
    THEN [first EXCEPT !.status = "Partial"]
    ELSE first

(* ------------------ SpecOrder: one Order under any calls ------------------ *)

MaxOrderCalls == 3
MaxOrderTime == 2

InitOrder ==
    /\ InitLifecycle
    /\ limits = NotBuilt
    /\ portfolio_state = NotBuilt
    /\ validated = NotBuilt
    /\ portfolio = NotBuilt
    /\ lastFill = NotBuilt
    /\ bt = NotBuilt
    /\ costCall = NotBuilt
    /\ twap = NotBuilt
    /\ \E quantity \in {Dec(1), Dec(2)} :
          LET order == Order_new("o1", "BTC-USDT", "Buy", "Limit", quantity, <<Dec(2)>>, 0) IN
          ord = [order |-> order, op |-> "new", before |-> order, n |-> 0, clock |-> 0]

\* A call on the Order at t, a Utc::now() that is the clock or a second later,
\* leaving the Order as `after`
OrderCall(op, after, t) ==
    /\ ord.n < MaxOrderCalls
    /\ t \in {ord.clock, ord.clock + 1}
    /\ t <= MaxOrderTime
    /\ ord' = [order |-> after, op |-> op, before |-> ord.order, n |-> ord.n + 1, clock |-> t]
    /\ UNCHANGED <<lifecycleVars, riskVars, pfVars, bt, costCall, twap>>

set_status_call(status) ==
    \E t \in 0..MaxOrderTime : OrderCall("set_status", set_status(ord.order, status, t), t)

mark_submitted_call ==
    \E t \in 0..MaxOrderTime : OrderCall("mark_submitted", mark_submitted(ord.order, "okx1", t), t)

update_fill_call(filled_qty, avg_price) ==
    \E t \in 0..MaxOrderTime :
        OrderCall("update_fill", update_fill(ord.order, filled_qty, avg_price, t), t)

\* Quantity::new admits every value >= 0, Price::new every value > 0
NextOrder ==
    \/ \E status \in OrderStatus : set_status_call(status)
    \/ mark_submitted_call
    \/ \E filled_qty \in {0, Dec(1), Dec(2), Dec(3)}, avg_price \in {Dec(1), Dec(2)} :
          update_fill_call(filled_qty, avg_price)

SpecOrder == InitOrder /\ [][NextOrder]_vars

(* ------------------------ algorithms.rs: TwapExecutor ----------------------- *)

\* a / b for b > 0 and a of either sign
DecDivSigned(a, b) == IF a < 0 THEN -DecDiv(-a, b) ELSE DecDiv(a, b)

DecMin(a, b) == IF a < b THEN a ELSE b

\* (total_seconds / slice_interval_seconds).max(1), for a non-zero interval
slice_count_of(config) ==
    LET total_seconds == config.duration_minutes * 60
        n == total_seconds \div config.slice_interval_seconds
    IN IF n < 1 THEN 1 ELSE n

\* the slice size without the clamp to remaining
slice_size_unclamped(base_slice_size, random_factor, remaining) ==
    DecMul(base_slice_size, random_factor)

slice_size_of(base_slice_size, random_factor, remaining) ==
    DecMin(DecMul(base_slice_size, random_factor), remaining)

calculate_price_with_offset(config, side, base_price) ==
    LET offset_decimal == DecDivSigned(Dec(config.price_offset_bps), Dec(10000))
        offset_amount == DecMul(base_price, offset_decimal)
        adjusted_price == IF side = "Buy" THEN base_price + offset_amount
                                          ELSE base_price - offset_amount
    IN IF Price_new_ok(adjusted_price) THEN adjusted_price ELSE base_price

(* --------------- SpecTwap: execute under any draws and failures --------------- *)

\* TwapExecutor::new with any TwapConfig (total_quantity is a Quantity, >= 0, the
\* interval a u32, the randomization one of the documented 0 to 25 percent), and
\* the arguments of the one call of execute
InitTwap ==
    /\ InitLifecycle
    /\ limits = NotBuilt
    /\ portfolio_state = NotBuilt
    /\ validated = NotBuilt
    /\ portfolio = NotBuilt
    /\ lastFill = NotBuilt
    /\ bt = NotBuilt
    /\ costCall = NotBuilt
    /\ ord = NotBuilt
    /\ \E config \in [total_quantity : {0, Dec(1), Dec(2)},
                       duration_minutes : {1},
                       slice_interval_seconds : {0, 20, 30, 120},
                       randomization_pct : {0, Dec(10), Dec(25)},
                       order_type : {"Limit"},
                       price_offset_bps : {0},
                       aggressive_on_final : {TRUE}] :
          twap = [config |-> config, side |-> "Buy", current_price |-> Dec(2), pc |-> "new"]

\* execute up to the loop (lines 151-178); the division by a zero interval panics
execute_start ==
    /\ twap.pc = "new"
    /\ twap' = IF twap.config.slice_interval_seconds = 0
               THEN [twap EXCEPT !.pc = "panic"]
               ELSE LET slice_count == slice_count_of(twap.config) IN
                    [config |-> twap.config, side |-> twap.side,
                     current_price |-> twap.current_price, pc |-> "loop",
                     slice_count |-> slice_count,
                     base_slice_size |-> DecDiv(twap.config.total_quantity, Dec(slice_count)),
                     remaining |-> twap.config.total_quantity,
                     total_cost |-> 0,
                     total_executed |-> 0,
                     slice_details |-> << >>,
                     slices_executed |-> 0,
                     slices_failed |-> 0,
                     slice_num |-> 0,
                     before |-> << >>]
    /\ UNCHANGED <<lifecycleVars, riskVars, pfVars, bt, costCall, ord>>

\* One pass of the loop body (lines 180-250) with the random_val drawn, which
\* is (rand::random::<f64>() - 0.5) * 2.0, from -1.0 up to but not 1.0, and the
\* outcome of submit_order in execute_slice; `before` keeps, per slice, what
\* remained when the slice was sized
execute_slice_pass(random_val, submitted) ==
    /\ twap.pc = "loop"
    /\ twap.slice_num < twap.slice_count
    /\ twap.remaining > 0
    /\ LET random_factor ==
               IF twap.config.randomization_pct > 0
               THEN Dec(1) + DecDivSigned(DecMul(random_val, twap.config.randomization_pct), Dec(100))
               ELSE Dec(1)
           slice_size == slice_size_of(twap.base_slice_size, random_factor, twap.remaining)
           is_final == twap.slice_num = twap.slice_count - 1 \/ slice_size >= twap.remaining
           order_type == IF is_final /\ twap.config.aggressive_on_final
                         THEN "Market" ELSE twap.config.order_type
           slice_price == calculate_price_with_offset(twap.config, twap.side, twap.current_price)
           \* execute_slice: Quantity::new(quantity)?, submit_order(order)?, Ok(quantity)
           executed == Quantity_new_ok(slice_size) /\ submitted
           detail == [slice_number |-> twap.slice_num,
                      target_quantity |-> slice_size,
                      executed_quantity |-> IF executed THEN slice_size ELSE 0,
                      price |-> slice_price,
                      order_type |-> order_type,
                      success |-> executed]
       IN
       twap' = IF ~Quantity_new_ok(slice_size)
               THEN [twap EXCEPT !.pc = "panic"]       \* Quantity::new(slice_size).unwrap()
               ELSE IF executed
               THEN [twap EXCEPT !.total_executed = @ + slice_size,
                                 !.total_cost = @ + DecMul(slice_size, slice_price),
                                 !.remaining = @ - slice_size,
                                 !.slices_executed = @ + 1,
                                 !.slice_details = Append(@, detail),
                                 !.before = Append(@, twap.remaining),
                                 !.slice_num = @ + 1]
               ELSE [twap EXCEPT !.slices_failed = @ + 1,
                                 !.slice_details = Append(@, detail),
                                 !.before = Append(@, twap.remaining),
                                 !.slice_num = @ + 1]
    /\ UNCHANGED <<lifecycleVars, riskVars, pfVars, bt, costCall, ord>>

\* the loop is left and the TwapResult built (lines 252-272)
execute_finish ==
    /\ twap.pc = "loop"
    /\ twap.slice_num = twap.slice_count \/ twap.remaining <= 0
    /\ LET avg_price == IF twap.total_executed > 0
                        THEN DecDiv(twap.total_cost, twap.total_executed)
                        ELSE twap.current_price
       IN twap' = [twap EXCEPT !.pc = IF Price_new_ok(avg_price) THEN "Ok" ELSE "Err"]
    /\ UNCHANGED <<lifecycleVars, riskVars, pfVars, bt, costCall, ord>>

NextTwap ==
    \/ execute_start
    \/ \E random_val \in {-Dec(1), -(DecUnit \div 2), 0, DecUnit \div 2, Dec(1) - 1},
          submitted \in BOOLEAN : execute_slice_pass(random_val, submitted)
    \/ execute_finish

SpecTwap == InitTwap /\ [][NextTwap]_vars

(* ------- SpecTwapOM: execute with the order manager its slices go to ------- *)

\* A TwapExecutor of one slice on an order manager that holds no order yet
InitTwapOM ==
    /\ InitLifecycle
    /\ limits = NotBuilt
    /\ portfolio_state = NotBuilt
    /\ validated = NotBuilt
    /\ portfolio = NotBuilt
    /\ lastFill = NotBuilt
    /\ bt = NotBuilt
    /\ costCall = NotBuilt
    /\ ord = NotBuilt
    /\ \E config \in [total_quantity : {Dec(1), Dec(2)},
                       duration_minutes : {1},
                       slice_interval_seconds : {120},
                       randomization_pct : {0, Dec(10)},
                       order_type : {"Limit"},
                       price_offset_bps : {0},
                       aggressive_on_final : {TRUE}] :
          twap = [config |-> config, side |-> "Buy", current_price |-> Dec(2), pc |-> "new"]

\* execute_slice, line 292: the slice's child order, a fresh Order::new, goes to
\* submit_order.  The Order of the model carries no quantity, so the call is made
\* before the pass sizes the slice.
execute_slice_submit ==
    /\ twap.pc = "loop"
    /\ twap.slice_num < twap.slice_count
    /\ twap.remaining > 0
    /\ Len(submits) = Len(twap.slice_details)
    /\ SubmitFresh

\* execute_slice, lines 292-298, and the rest of the pass: submit_order has
\* returned Ok(order_id), the id is dropped, and after the sleep the slice's
\* whole quantity is returned as executed
execute_slice_returned ==
    /\ twap.pc = "loop"
    /\ Len(submits) = Len(twap.slice_details) + 1
    /\ submits[Len(submits)].pc = "returned"
    /\ \E random_val \in {-Dec(1), 0, Dec(1) - 1} : execute_slice_pass(random_val, TRUE)

\* The manager runs the child order while execute sleeps, and its owner may cancel it
NextTwapOM ==
    \/ execute_start
    \/ execute_slice_submit
    \/ execute_slice_returned
    \/ execute_finish
    \/ CancelCall(ReuseMaxCancels)
    \/ OMSteps

SpecTwapOM == InitTwapOM /\ [][NextTwapOM]_vars

(* ------------------------- engine.rs: BacktestEngine ----------------------- *)

\* MockDataSource::query_candles: the candles stored for the symbol, whatever the
\* interval and the time range, or none
query_candles(storage, symbol) == IF symbol \in DOMAIN storage THEN storage[symbol] ELSE << >>

\* The outcome of a method of the engine: Ok, the kind of Err with the symbol its
\* message names, or a panic; and the engine it leaves behind
Returned(kind, detail) == [kind |-> kind, detail |-> detail]

EngineOutcome(returned, e) == [returned |-> returned, e |-> e]

OkOutcome(e) == EngineOutcome(Returned("Ok", ""), e)

\* BacktestEngine::new.  rnd is what the process draws at random for this engine:
\* the keys of the RandomState of its HashMaps and the Uuids of its orders.  pc,
\* returned, processed, trace, enqueued and attempts are kept for the properties: where
\* run stands and what it returned, the number of events processed, the events
\* popped from the queue so far, the event
\* during which each order was put into pending_orders, and every entry into
\* fill_order
BacktestEngine_new(config, strategy, storage, rnd) ==
    [config |-> config,
     strategy |-> strategy,
     storage |-> storage,
     portfolio |-> Portfolio_new(config.initial_capital),
     events |-> << >>,
     pending_orders |-> << >>,
     executions |-> << >>,
     trades |-> << >>,
     current_prices |-> << >>,
     avg_volumes |-> << >>,
     rnd |-> rnd,
     uuids |-> 0,
     pc |-> "new",
     returned |-> Returned("none", ""),
     summary |-> << >>,
     processed |-> 0,
     trace |-> << >>,
     enqueued |-> << >>,
     attempts |-> << >>]

\* Uuid::new_v4()
next_uuid(e) == <<e.rnd, e.uuids + 1>>

\* The order in which a HashMap of this engine yields its keys: one order for
\* each rnd, the two orders being each other's reverse
iter_keys(rnd, keys) ==
    LET RECURSIVE keys_in_order(_)
        keys_in_order(ks) ==
            IF ks = {} THEN << >>
            ELSE LET k == CHOOSE x \in ks : TRUE IN <<k>> \o keys_in_order(ks \ {k})
        seq == keys_in_order(keys)
    IN
    IF rnd = 1 THEN seq ELSE [i \in 1..Len(seq) |-> seq[Len(seq) + 1 - i]]

\* sort_by_key(|e| e.timestamp()), a stable sort
RECURSIVE sort_by_key(_)
sort_by_key(seq) ==
    LET RECURSIVE insert_by_key(_, _)
        insert_by_key(sorted, x) ==
            IF sorted = << >> THEN <<x>>
            ELSE IF Head(sorted).timestamp <= x.timestamp
            THEN <<Head(sorted)>> \o insert_by_key(Tail(sorted), x)
            ELSE <<x>> \o sorted
    IN
    IF seq = << >> THEN << >>
    ELSE insert_by_key(sort_by_key(SubSeq(seq, 1, Len(seq) - 1)), seq[Len(seq)])

\* the loop of load_data passing over a symbol without candles
RECURSIVE load_symbols_skips_empty(_, _, _)
load_symbols_skips_empty(e, symbols, i) ==
    IF i > Len(symbols) THEN OkOutcome(e)
    ELSE LET candles == query_candles(e.storage, symbols[i]) IN
         load_symbols_skips_empty([e EXCEPT !.events = @ \o candles], symbols, i + 1)

\* the loop of load_data (lines 190-211) from the i-th symbol on
RECURSIVE load_symbols(_, _, _)
load_symbols(e, symbols, i) ==
    IF i > Len(symbols) THEN OkOutcome(e)
    ELSE LET candles == query_candles(e.storage, symbols[i]) IN
         IF candles = << >>
         THEN EngineOutcome(Returned("InsufficientData", symbols[i]), e)
         ELSE load_symbols([e EXCEPT !.events = @ \o candles], symbols, i + 1)

\* load_data taking the symbols in the order a HashMap would yield them
load_data_hash_order(e) ==
    LET symbols == iter_keys(e.rnd, {e.config.symbols[i] : i \in DOMAIN e.config.symbols})
        loaded == load_symbols(e, symbols, 1)
    IN IF loaded.returned.kind # "Ok" THEN loaded
       ELSE OkOutcome([loaded.e EXCEPT !.events = sort_by_key(@)])

\* load_data leaving the events in the order the data source returned them
load_data_unsorted(e) == load_symbols(e, e.config.symbols, 1)

load_data(e) ==
    LET loaded == load_symbols(e, e.config.symbols, 1) IN
    IF loaded.returned.kind # "Ok" THEN loaded
    ELSE OkOutcome([loaded.e EXCEPT !.events = sort_by_key(@)])

\* calculate_position_size, for a price > 0
calculate_position_size(e, symbol) ==
    IF symbol \notin DOMAIN e.current_prices
    THEN [returned |-> Returned("ExecutionError", symbol), size |-> 0]
    ELSE
    LET price == e.current_prices[symbol]
        equity == total_equity(e.portfolio)
        sizing == e.config.position_sizing
        kelly == DecDivSigned(DecMul(sizing.win_rate, sizing.win_loss_ratio + Dec(1)) - Dec(1),
                              sizing.win_loss_ratio)
        kelly_fraction == DecMin(IF kelly < 0 THEN 0 ELSE kelly, DecUnit \div 4)
        size == CASE sizing.kind = "Fixed" -> DecDivSigned(sizing.amount, price)
                  [] sizing.kind = "PercentOfEquity" -> DecDivSigned(DecMul(equity, sizing.pct), price)
                  [] sizing.kind = "Kelly" -> DecDivSigned(DecMul(equity, kelly_fraction), price)
    IN [returned |-> Returned("Ok", ""), size |-> size]

\* fill_order.  The argument of unwrap_or at line 435, Price::new(dec!(0.0)).unwrap(),
\* is evaluated before unwrap_or is called, whatever order.price holds.  ToRat and
\* FromRat are the Decimals of the engine as handed to the cost model and as taken
\* back from it
fill_order(e, order, timestamp) ==
    LET symbol == order.symbol
        avg_volume == IF symbol \in DOMAIN e.avg_volumes THEN e.avg_volumes[symbol] ELSE Dec(1)
        current == IF symbol \in DOMAIN e.current_prices THEN <<e.current_prices[symbol]>> ELSE << >>
        attempt(base, outcome) ==
            [order |-> order, timestamp |-> timestamp, current |-> current,
             event |-> e.processed, base |-> base, outcome |-> outcome]
        ToRat(a) == Rat(a, DecUnit)
        FromRat(r) == IF r[1] < 0 THEN -RoundDiv((-r[1]) * DecUnit, r[2])
                                  ELSE RoundDiv(r[1] * DecUnit, r[2])
        \* lines 454-467: the execution is recorded and the strategy told
        recorded(fill, tried) ==
            [tried EXCEPT !.executions = Append(@, [order_id |-> order.id,
                                                    symbol |-> symbol,
                                                    side |-> order.side,
                                                    filled_price |-> fill.price,
                                                    filled_quantity |-> order.quantity,
                                                    commission |-> fill.commission,
                                                    timestamp |-> timestamp]),
                          !.strategy.order_fills = @ + 1]
        \* line 467: self.strategy.on_order_fill(&order).await?
        notified(r) ==
            IF r.strategy.fails = "on_order_fill"
            THEN EngineOutcome(Returned("StrategyError", "on_order_fill"), r)
            ELSE OkOutcome(r)
        \* line 451: self.portfolio.apply_fill(order, &fill)?
        applied(base, fill, result, pf) ==
            LET tried == [e EXCEPT !.portfolio = pf,
                                   !.attempts = Append(@, attempt(<<base>>, result))]
            IN CASE result = "Panic" -> EngineOutcome(Returned("Panic", ""), tried)
                 [] result = "Err" -> EngineOutcome(Returned("ExecutionError", symbol), tried)
                 [] OTHER -> notified(recorded(fill, tried))
        apply(base, fill, r) == applied(base, fill, r.result, r.pf)
        \* lines 441-448: the Fill
        filled(base, cost) ==
            LET fill == [order_id |-> order.id,
                         price |-> FromRat(cost.execution_price),
                         quantity |-> order.quantity,
                         commission |-> FromRat(cost.commission),
                         timestamp |-> timestamp,
                         slippage |-> FromRat(cost.slippage)]
            IN apply(base, fill, apply_fill(e.portfolio, order, fill))
        \* lines 432-438: the cost model on order.price
        costed(base) ==
            filled(base, calculate_total_cost(e.config.cost_model, order.order_type, order.side,
                                              ToRat(base), ToRat(order.quantity), ToRat(avg_volume)))
    IN
    IF ~Price_new_ok(0)
    THEN EngineOutcome(Returned("Panic", ""),
                       [e EXCEPT !.attempts = Append(@, attempt(<< >>, "Panic"))])
    ELSE costed(IF order.price = << >> THEN 0 ELSE order.price[1])

\* the second loop of check_pending_orders (lines 368-372) from the i-th id on
RECURSIVE fill_each(_, _, _, _)
fill_each(e, to_fill, i, timestamp) ==
    LET next(filled) == IF filled.returned.kind # "Ok" THEN filled
                        ELSE fill_each(filled.e, to_fill, i + 1, timestamp)
    IN
    IF i > Len(to_fill) THEN OkOutcome(e)
    ELSE IF to_fill[i] \notin DOMAIN e.pending_orders THEN fill_each(e, to_fill, i + 1, timestamp)
    ELSE next(fill_order([e EXCEPT !.pending_orders = MapRemove(@, to_fill[i])],
                         e.pending_orders[to_fill[i]], timestamp))

\* check_pending_orders; should_fill is its lines 344-364
check_pending_orders(e, timestamp) ==
    LET ids == iter_keys(e.rnd, DOMAIN e.pending_orders)
        should_fill(id) ==
            LET order == e.pending_orders[id] IN
            /\ order.symbol \in DOMAIN e.current_prices
            /\ LET current_price == e.current_prices[order.symbol] IN
               CASE order.order_type = "Market" -> TRUE
                 [] order.order_type = "Limit" ->
                       /\ order.price # << >>
                       /\ IF order.side = "Buy" THEN current_price <= order.price[1]
                                                ELSE current_price >= order.price[1]
                 [] OTHER -> FALSE
        to_fill == SelectSeq(ids, should_fill)
    IN fill_each(e, to_fill, 1, timestamp)

close_position(e, symbol, timestamp) ==
    IF symbol \notin DOMAIN e.portfolio.positions THEN OkOutcome(e)
    ELSE
    LET position == e.portfolio.positions[symbol]
        quantity == DecAbs(position.quantity)
    IN
    IF symbol \notin DOMAIN e.current_prices
    THEN EngineOutcome(Returned("ExecutionError", symbol), e)
    ELSE
    LET price == e.current_prices[symbol]
        side == IF position.side = "Short" THEN "Buy" ELSE "Sell"
        drawn == [e EXCEPT !.uuids = @ + 1]
    IN
    IF ~(Quantity_new_ok(quantity) /\ Price_new_ok(price))
    THEN EngineOutcome(Returned("Err", symbol), drawn)
    ELSE fill_order(drawn,
                    Order_new(next_uuid(e), symbol, side, "Market", quantity, <<price>>, 0),
                    timestamp)

execute_signal(e, signal, symbol, timestamp) ==
    IF Cardinality(DOMAIN e.portfolio.positions) >= e.config.max_positions THEN OkOutcome(e)
    ELSE
    LET sized == calculate_position_size(e, symbol) IN
    IF sized.returned.kind # "Ok" THEN EngineOutcome(sized.returned, e)
    ELSE IF sized.size <= 0 THEN OkOutcome(e)
    ELSE IF signal = "Hold" THEN OkOutcome(e)
    ELSE IF signal \in {"CloseLong", "CloseShort"} THEN close_position(e, symbol, timestamp)
    ELSE
    LET side == IF signal = "Buy" THEN "Buy" ELSE "Sell"
        price == e.current_prices[symbol]
        drawn == [e EXCEPT !.uuids = @ + 1]
        id == next_uuid(e)
    IN
    IF ~(Quantity_new_ok(sized.size) /\ Price_new_ok(price))
    THEN EngineOutcome(Returned("Err", symbol), drawn)
    ELSE OkOutcome([drawn EXCEPT
                       !.pending_orders =
                           MapInsert(@, id, Order_new(id, symbol, side, "Market", sized.size,
                                                       <<price>>, 0)),
                       !.enqueued = MapInsert(@, id, e.processed)])

\* process_event leaving with the Err of generate_signal (`?`) instead of logging it
process_event_signal_error_aborts(e, candle) ==
    LET timestamp == candle.timestamp
        signalled(asked, signal) ==
            IF asked.strategy.fails = "generate_signal"
            THEN EngineOutcome(Returned("StrategyError", "generate_signal"), asked)
            ELSE IF signal = "Hold" THEN OkOutcome(asked)
            ELSE execute_signal(asked, signal, asked.config.symbols[1], timestamp)
        \* lines 303-318: self.strategy.on_market_data(market_data).await?
        fed(f) ==
            IF f.strategy.fails = "on_market_data"
            THEN EngineOutcome(Returned("StrategyError", "on_market_data"), f)
            ELSE IF f.config.symbols = << >> THEN OkOutcome(f)
            ELSE signalled([f EXCEPT !.strategy.signals = @ + 1],
                           f.strategy.script[(f.strategy.signals % Len(f.strategy.script)) + 1])
        \* line 300: self.check_pending_orders(timestamp).await?
        checked(c) ==
            IF c.returned.kind # "Ok" THEN c
            ELSE fed([c.e EXCEPT !.strategy.market_data = @ + 1])
        marked(priced) == [priced EXCEPT !.portfolio = update_prices(@, priced.current_prices)]
    IN
    checked(check_pending_orders(
                marked([e EXCEPT !.current_prices = MapInsert(@, candle.symbol, candle.close),
                                 !.avg_volumes = MapInsert(@, candle.symbol, candle.volume)]),
                timestamp))

\* process_event for a Candle; e.processed already counts this event.
\* generate_signal is that of a strategy that plays its script over and over;
\* strategy.fails names the method of the strategy that returns Err, if any
process_event(e, candle) ==
    LET timestamp == candle.timestamp
        \* lines 322-334: generate_signal and execute_signal for the first symbol;
        \* an Err of generate_signal is logged with warn!
        signalled(asked, signal) ==
            IF asked.strategy.fails = "generate_signal" THEN OkOutcome(asked)
            ELSE IF signal = "Hold" THEN OkOutcome(asked)
            ELSE execute_signal(asked, signal, asked.config.symbols[1], timestamp)
        \* lines 303-318: self.strategy.on_market_data(market_data).await?
        fed(f) ==
            IF f.strategy.fails = "on_market_data"
            THEN EngineOutcome(Returned("StrategyError", "on_market_data"), f)
            ELSE IF f.config.symbols = << >> THEN OkOutcome(f)
            ELSE signalled([f EXCEPT !.strategy.signals = @ + 1],
                           f.strategy.script[(f.strategy.signals % Len(f.strategy.script)) + 1])
        \* line 300: self.check_pending_orders(timestamp).await?
        checked(c) ==
            IF c.returned.kind # "Ok" THEN c
            ELSE fed([c.e EXCEPT !.strategy.market_data = @ + 1])
        marked(priced) == [priced EXCEPT !.portfolio = update_prices(@, priced.current_prices)]
    IN
    checked(check_pending_orders(
                marked([e EXCEPT !.current_prices = MapInsert(@, candle.symbol, candle.close),
                                 !.avg_volumes = MapInsert(@, candle.symbol, candle.volume)]),
                timestamp))

\* the loop of close_all_positions (lines 532-534) from the i-th symbol on
RECURSIVE close_each(_, _, _, _)
close_each(e, symbols, i, timestamp) ==
    LET next(closed) == IF closed.returned.kind # "Ok" THEN closed
                        ELSE close_each(closed.e, symbols, i + 1, timestamp)
    IN
    IF i > Len(symbols) THEN OkOutcome(e)
    ELSE next(close_position(e, symbols[i], timestamp))

close_all_positions(e) ==
    close_each(e, iter_keys(e.rnd, DOMAIN e.portfolio.positions), 1, e.config.end_time)

\* BacktestResult::from_portfolio_and_trades: the fields the properties read
from_portfolio_and_trades(pf, trades, initial_capital) ==
    [final_equity |-> total_equity(pf),
     total_pnl |-> total_equity(pf) - initial_capital,
     total_trades |-> Len(trades),
     equity_curve |-> pf.equity_curve]

generate_results(e) == from_portfolio_and_trades(e.portfolio, e.trades, e.config.initial_capital)

(* --------------- SpecBT: runs of the engine on the same inputs --------------- *)

MaxCandles == 2
MaxRuns == 2

RandomStates == {1, 2}

\* The inputs of a run.  The data source holds for each of the two symbols one
\* candle per timestamp 1, 2, .. (the key of the candle store is symbol, interval
\* and timestamp); the strategy plays a script of two signals and either returns
\* Ok from every method or Err from every call of one of them; a list of one symbol reads the candles of that
\* symbol only, so the other symbol has none
InitBT ==
    /\ InitLifecycle
    /\ limits = NotBuilt
    /\ portfolio_state = NotBuilt
    /\ validated = NotBuilt
    /\ portfolio = NotBuilt
    /\ lastFill = NotBuilt
    /\ costCall = NotBuilt
    /\ ord = NotBuilt
    /\ twap = NotBuilt
    /\ LET Candle(symbol, timestamp, close, volume) ==
               [symbol |-> symbol, timestamp |-> timestamp, close |-> close, volume |-> volume]
           CandleSeries(symbol, closes) ==
               UNION {{[i \in 1..n |-> Candle(symbol, i, close[i], Dec(1))] :
                          close \in [1..n -> closes]} : n \in 0..MaxCandles}
           Storages ==
               {[symbol \in Symbols |-> IF symbol = "BTC-USDT" THEN btc ELSE eth] :
                   btc \in CandleSeries("BTC-USDT", {Dec(1), Dec(2)}),
                   eth \in CandleSeries("ETH-USDT", {Dec(1)})}
           BacktestConfigs ==
               [initial_capital : {Dec(10)},
                end_time : {MaxCandles},
                symbols : {<<"BTC-USDT">>, <<"BTC-USDT", "ETH-USDT">>},
                cost_model : {CostModel_default},
                max_positions : {0, 5},
                position_sizing : {[kind |-> "Fixed", amount |-> Dec(2)],
                                   [kind |-> "PercentOfEquity", pct |-> DecUnit \div 2]}]
           Strategies ==
               [script : [1..2 -> {"Buy", "Sell", "Hold", "CloseLong"}],
                fails : {"none", "on_market_data", "generate_signal", "on_order_fill"},
                initialized : {FALSE},
                market_data : {0},
                signals : {0},
                order_fills : {0}]
       IN
       \E config \in BacktestConfigs, strategy \in Strategies, storage \in Storages,
          rnd \in RandomStates :
          /\ \A symbol \in Symbols :
                symbol \notin {config.symbols[i] : i \in DOMAIN config.symbols}
                    => storage[symbol] = << >>
          /\ bt = [config |-> config, strategy |-> strategy, storage |-> storage,
                   runs |-> <<BacktestEngine_new(config, strategy, storage, rnd)>>]

\* the engine whose run is under way: the one built last
Engine == bt.runs[Len(bt.runs)]

\* the step leaves the engine as `outcome` has it and goes on at pc when the
\* outcome is Ok; otherwise run returns the Err, or unwinds
RunStep(outcome, pc) ==
    /\ bt' = [bt EXCEPT !.runs[Len(bt.runs)] =
                 IF outcome.returned.kind = "Ok"
                 THEN [outcome.e EXCEPT !.pc = pc]
                 ELSE [outcome.e EXCEPT !.pc = "done", !.returned = outcome.returned]]
    /\ UNCHANGED <<lifecycleVars, riskVars, pfVars, costCall, ord, twap>>

\* run: self.load_data().await? (line 227)
run_load_data ==
    /\ Engine.pc = "new"
    /\ RunStep(load_data(Engine), "loaded")

\* run: self.strategy.initialize(strategy_config).await? (lines 230-244)
run_initialize ==
    /\ Engine.pc = "loaded"
    /\ RunStep(OkOutcome([Engine EXCEPT !.strategy.initialized = TRUE]), "events")

\* run: one pass of the event loop (lines 250-258)
run_process_event ==
    /\ Engine.pc = "events"
    /\ Engine.events # << >>
    /\ RunStep(process_event([Engine EXCEPT !.events = Tail(@), !.processed = @ + 1,
                                             !.trace = Append(@, Head(Engine.events))],
                             Head(Engine.events)),
               "events")

\* run: self.close_all_positions().await? (line 261)
run_close_all_positions ==
    /\ Engine.pc = "events"
    /\ Engine.events = << >>
    /\ RunStep(close_all_positions(Engine), "closed")

\* run: generate_results and Ok(result) (lines 264-270)
run_generate_results ==
    /\ Engine.pc = "closed"
    /\ bt' = [bt EXCEPT !.runs[Len(bt.runs)] =
                 [Engine EXCEPT !.pc = "done",
                                !.returned = Returned("Ok", ""),
                                !.summary = <<generate_results(Engine)>>]]
    /\ UNCHANGED <<lifecycleVars, riskVars, pfVars, costCall, ord, twap>>

\* another engine is built on the same inputs, with what it draws at random
run_again ==
    /\ Engine.pc = "done"
    /\ Len(bt.runs) < MaxRuns
    /\ \E rnd \in RandomStates :
          bt' = [bt EXCEPT !.runs = Append(@, BacktestEngine_new(bt.config, bt.strategy,
                                                                  bt.storage, rnd))]
    /\ UNCHANGED <<lifecycleVars, riskVars, pfVars, costCall, ord, twap>>

NextBT ==
    \/ run_load_data
    \/ run_initialize
    \/ run_process_event
    \/ run_close_all_positions
    \/ run_generate_results
    \/ run_again

SpecBT == InitBT /\ [][NextBT]_vars

(* ------ SpecBTPerm: a second run on the same candles in another order ------ *)

\* The inputs of SpecBT with a strategy that returns Ok from every method, a
\* fixed position size and room for positions, and one random draw
InitBTPerm ==
    /\ InitBT
    /\ bt.strategy.fails = "none"
    /\ bt.config.position_sizing.kind = "Fixed"
    /\ bt.config.max_positions > 0
    /\ Engine.rnd = 1

\* after the run on the data source of InitBT, one engine is built on a data
\* source that returns, for each symbol, the same candles in any order
\* (MockDataSource::add_candles keeps the Vec it is given), with the same random draw
run_again_permuted ==
    /\ Engine.pc = "done"
    /\ Len(bt.runs) = 1
    /\ LET Perms(seq) ==
               {[i \in 1..Len(seq) |-> seq[p[i]]] :
                   p \in {f \in [1..Len(seq) -> 1..Len(seq)] :
                             \A a, b \in 1..Len(seq) : a # b => f[a] # f[b]}}
       IN \E storage \in [Symbols -> UNION {Perms(bt.storage[symbol]) : symbol \in Symbols}] :
             /\ \A symbol \in Symbols : storage[symbol] \in Perms(bt.storage[symbol])
             /\ bt' = [bt EXCEPT !.runs = Append(@, BacktestEngine_new(bt.config, bt.strategy,
                                                                      storage, Engine.rnd))]
    /\ UNCHANGED <<lifecycleVars, riskVars, pfVars, costCall, ord, twap>>

NextBTPerm ==
    \/ run_load_data
    \/ run_initialize
    \/ run_process_event
    \/ run_close_all_positions
    \/ run_generate_results
    \/ run_again_permuted

SpecBTPerm == InitBTPerm /\ [][NextBTPerm]_vars

(* -------------------- properties of the state machine -------------------- *)

\* The legal set as the specification lists it (section 4.2)
LegalSet ==
    ({"Created"} \X {"Validated", "Rejected", "Failed"})
    \cup ({"Validated"} \X {"Submitted", "Rejected", "Cancelled"})
    \cup ({"Submitted"} \X {"Acknowledged", "Rejected", "Failed", "Cancelled", "Expired"})
    \cup ({"Acknowledged"} \X {"PartiallyFilled", "Filled", "Cancelled", "Rejected"})
    \cup ({"PartiallyFilled"} \X {"Filled", "Cancelled"})

ToStates(m) == [i \in 1..Len(m.transitions) |-> m.transitions[i].to_state]

\* C1: a transition call between two distinct states is accepted if and only if
\* the pair (current, to) is in the legal set, and every change of state recorded
\* in the audit trail of a machine started in Created is in the legal set.
C1_LegalTransitionsOnly ==
    /\ (lastCall.n > 0 /\ lastCall.before.current_state # lastCall.to)
          => (lastCall.ok <=> <<lastCall.before.current_state, lastCall.to>> \in LegalSet)
    /\ \A i \in 1..Len(sm.transitions) :
          sm.transitions[i].from_state # sm.transitions[i].to_state
            => <<sm.transitions[i].from_state, sm.transitions[i].to_state>> \in LegalSet

\* C1 witness: after three accepted changes of state, a call between two distinct
\* states out of a non-terminal state was refused.
C1_Witness ==
    /\ Len(sm.transitions) >= 3
    /\ ToStates(sm)[3] = "Acknowledged"
    /\ lastCall.before.current_state = "Acknowledged"
    /\ lastCall.to = "Expired"
    /\ ~lastCall.ok

\* C2: a transition call to a different state made on a machine in a terminal
\* state is refused and leaves current_state, transitions and updated_at as they were.
C2_TerminalFrozen ==
    (/\ lastCall.n > 0
     /\ is_terminal(lastCall.before.current_state)
     /\ lastCall.to # lastCall.before.current_state)
        => (~lastCall.ok /\ sm = lastCall.before)

\* C2 witness: Created->Validated->Submitted->Acknowledged->PartiallyFilled->Filled,
\* then transition(Cancelled) at a later time than the last accepted transition.
C2_Witness ==
    /\ ToStates(sm) = <<"Validated", "Submitted", "Acknowledged", "PartiallyFilled", "Filled">>
    /\ lastCall.before.current_state = "Filled"
    /\ lastCall.to = "Cancelled"
    /\ now > sm.updated_at

\* C30: self-transitions are allowed: for every lifecycle state s, a call of
\* transition(s) on a machine in state s is accepted and leaves current_state
\* equal to s.
C30_SelfTransitionAccepted ==
    (lastCall.n > 0 /\ lastCall.to = lastCall.before.current_state)
        => (lastCall.ok /\ sm.current_state = lastCall.to)

\* The records of the trail follow one another from Created to current_state
ChainConsistent(m) ==
    LET trail == m.transitions IN
    IF trail = << >> THEN m.current_state = "Created"
    ELSE /\ trail[1].from_state = "Created"
         /\ \A i \in 1..(Len(trail) - 1) : trail[i + 1].from_state = trail[i].to_state
         /\ trail[Len(trail)].to_state = m.current_state

\* C31: the audit trail is append-only and chain-consistent: an accepted
\* transition appends exactly one record, from the state before the call to the
\* state after it; a rejected transition appends nothing; at every moment the
\* first record starts from Created, each record starts where the one before it
\* ended, and the last record ends at current_state.
C31_TrailAppendOnlyChained ==
    /\ ChainConsistent(sm)
    /\ lastCall.n > 0 =>
          LET before == lastCall.before.transitions
              after == sm.transitions
          IN IF lastCall.ok
             THEN /\ Len(after) = Len(before) + 1
                  /\ SubSeq(after, 1, Len(before)) = before
                  /\ after[Len(after)].from_state = lastCall.before.current_state
                  /\ after[Len(after)].to_state = sm.current_state
                  /\ sm.current_state = lastCall.to
             ELSE after = before

\* C31 witness: three transitions accepted, one of them a self-transition, and
\* the fourth call rejected.
C31_Witness ==
    /\ lastCall.n = 4
    /\ ~lastCall.ok
    /\ Len(sm.transitions) = 3
    /\ \E i \in 1..3 : sm.transitions[i].from_state = sm.transitions[i].to_state

\* C35: for every lifecycle state in which can_cancel() is true (Created,
\* Validated, Submitted, Acknowledged, PartiallyFilled), transition(Cancelled)
\* from that state is accepted.
C35_CancellableCanBeCancelled ==
    (lastCall.n > 0 /\ can_cancel(lastCall.before.current_state) /\ lastCall.to = "Cancelled")
        => (lastCall.ok /\ sm.current_state = "Cancelled")

(* -------------------- properties of the order manager -------------------- *)

StateOf(order_id) == orders[order_id].state_machine.current_state

TrailOf(order_id) == orders[order_id].state_machine.transitions

IsEventOf(e, order_id) == e.order_id = order_id

EventTypesOf(order_id) ==
    LET es == SelectSeq(events, LAMBDA e : IsEventOf(e, order_id)) IN
    [k \in 1..Len(es) |-> es[k].type]

CountEvents(type, order_id) ==
    Cardinality({k \in 1..Len(events) : events[k] = OrderEvent(type, order_id)})

IsPrefix(a, b) == Len(a) <= Len(b) /\ \A k \in 1..Len(a) : a[k] = b[k]

CancelsIn(order_id, pcs) == {i \in DOMAIN cancels : cancels[i].id = order_id /\ cancels[i].pc \in pcs}

\* C3: once the state recorded for an order id is terminal, no step of submit_order,
\* of the spawned submission, of cancel_order or of reconcile changes the state or
\* the audit trail recorded for that id.
C3_TerminalOrderFrozen ==
    [][\A order_id \in DOMAIN orders :
          is_terminal(StateOf(order_id))
            => /\ order_id \in DOMAIN orders'
               /\ orders'[order_id].state_machine.current_state = StateOf(order_id)
               /\ orders'[order_id].state_machine.transitions = TrailOf(order_id)]_vars

\* C4: a cancel_order call that returned Ok saw a cancellable state at its check,
\* the order is Cancelled and exactly one OrderCancelled event exists for it; the
\* calls that returned an error changed nothing and emitted nothing: every
\* OrderCancelled event and every Cancelled record of the audit trail belongs to a
\* call that passed its transition, and a call refused at the check saw a state
\* that cannot be cancelled.
C4_CancelResult ==
    /\ \A i \in DOMAIN cancels :
        /\ cancels[i].pc = "ok"
             => /\ can_cancel(cancels[i].seen)
                /\ StateOf(cancels[i].id) = "Cancelled"
                /\ CountEvents("OrderCancelled", cancels[i].id) = 1
        /\ cancels[i].pc = "err_state" => ~can_cancel(cancels[i].seen)
        /\ cancels[i].pc = "err_not_found" => cancels[i].seen = "none"
    /\ \A order_id \in OrderIds :
        /\ CountEvents("OrderCancelled", order_id) = Cardinality(CancelsIn(order_id, {"ok"}))
        /\ order_id \in DOMAIN orders =>
             Cardinality({k \in 1..Len(TrailOf(order_id)) : TrailOf(order_id)[k].to_state = "Cancelled"})
               = Cardinality(CancelsIn(order_id, {"transitioned", "ok"}))

\* C4 witness: two concurrent cancel_order calls passed the check; the submission
\* task moved the order from Validated to Submitted between one call's check and
\* its transition; that call returned Ok and the other InvalidStateTransition.
C4_Witness ==
    \E i, j \in DOMAIN cancels :
        /\ cancels[i].pc = "ok"
        /\ cancels[i].seen = "Validated"
        /\ \E k \in 1..Len(TrailOf(cancels[i].id)) :
              TrailOf(cancels[i].id)[k].from_state = "Submitted"
              /\ TrailOf(cancels[i].id)[k].to_state = "Cancelled"
        /\ cancels[j].pc = "err_transition"

\* No cancel_order call has changed the order and no timeout has fired for it
NoCancelNoTimeout(order_id) ==
    /\ CancelsIn(order_id, {"transitioned", "ok"}) = {}
    /\ CountEvents("OrderExpired", order_id) = 0

\* C5: when submit_order has returned, the order is stored with first transition
\* Created->Validated and OrderCreated has been emitted; while no cancel and no
\* timeout has intervened the order is Validated until the spawned submission acts,
\* the submission never fails and moves it to Submitted and then Acknowledged, and
\* the events of the order are a prefix of OrderCreated, OrderSubmitted,
\* OrderAcknowledged (all three once the submission is done); the exchange id is
\* mapped whenever OrderAcknowledged has been emitted.
C5_SubmitHappyPath ==
    /\ \A i \in DOMAIN submits :
         submits[i].pc = "returned"
           => /\ submits[i].id \in DOMAIN orders
              /\ TrailOf(submits[i].id)[1].from_state = "Created"
              /\ TrailOf(submits[i].id)[1].to_state = "Validated"
              /\ CountEvents("OrderCreated", submits[i].id) = 1
    /\ \A order_id \in DOMAIN orders :
         NoCancelNoTimeout(order_id)
           => /\ IsPrefix(EventTypesOf(order_id),
                          <<"OrderCreated", "OrderSubmitted", "OrderAcknowledged">>)
              /\ (\A i \in DOMAIN tasks : tasks[i].id # order_id) => StateOf(order_id) = "Validated"
              /\ \A i \in DOMAIN tasks :
                   tasks[i].id = order_id
                     => /\ tasks[i].pc \notin {"err", "failed"}
                        /\ tasks[i].pc = "spawned" => StateOf(order_id) = "Validated"
                        /\ tasks[i].pc \in {"submitted", "sleeping"} => StateOf(order_id) = "Submitted"
                        /\ tasks[i].pc \in {"mapped", "done"} => StateOf(order_id) = "Acknowledged"
                        /\ tasks[i].pc = "done"
                             => EventTypesOf(order_id)
                                  = <<"OrderCreated", "OrderSubmitted", "OrderAcknowledged">>
    /\ \A order_id \in OrderIds :
         CountEvents("OrderAcknowledged", order_id) > 0
           => /\ <<"OKX", order_id>> \in DOMAIN exchange_id_map
              /\ exchange_id_map[<<"OKX", order_id>>] = order_id

\* C5 witness: the submission is done with neither cancel nor timeout, after the
\* clock has moved: the order is Acknowledged and its three events are out.
C5_Witness ==
    \E i \in DOMAIN tasks :
        /\ tasks[i].pc = "done"
        /\ NoCancelNoTimeout(tasks[i].id)
        /\ StateOf(tasks[i].id) = "Acknowledged"
        /\ EventTypesOf(tasks[i].id) = <<"OrderCreated", "OrderSubmitted", "OrderAcknowledged">>
        /\ now > 0

\* C6: after a reconcile pass, every order the pass found active and longer than
\* order_timeout in its current state is Expired, and OrderExpired was emitted for it.
C6_TimedOutAreExpired ==
    (rec.pc = "idle" /\ rec.passes > 0)
        => \A order_id \in rec.timedOut :
              /\ StateOf(order_id) = "Expired"
              /\ CountEvents("OrderExpired", order_id) > 0

\* C7: with the reconciler and the spawned submission running, an accepted order
\* ends in a terminal state: once submit_order has returned, the submission task
\* has run to its end and a reconcile pass that found the order past its deadline
\* has run to its end, the order is terminal or no longer past its deadline.
C7_TerminalAfterDeadline ==
    \A order_id \in DOMAIN orders :
        (/\ rec.pc = "idle"
         /\ order_id \in rec.timedOut
         /\ should_timeout(orders, order_id, now)
         /\ \A i \in DOMAIN submits : submits[i].id = order_id => submits[i].pc = "returned"
         /\ \A i \in DOMAIN tasks : tasks[i].id = order_id => tasks[i].pc \in {"done", "failed"})
            => is_terminal(StateOf(order_id))

\* C8: every OrderFailed event refers to an order whose recorded state is Failed
\* (a failed submission ends, after its retries, with the order moved to Failed).
C8_FailedEventMeansFailed ==
    \A k \in 1..Len(events) :
        events[k].type = "OrderFailed"
            => /\ events[k].order_id \in DOMAIN orders
               /\ StateOf(events[k].order_id) = "Failed"

\* The lifecycle state an event reports
EventState(type) ==
    CASE type = "OrderCreated" -> "Validated"
      [] type = "OrderSubmitted" -> "Submitted"
      [] type = "OrderAcknowledged" -> "Acknowledged"
      [] type = "OrderCancelled" -> "Cancelled"
      [] type = "OrderFailed" -> "Failed"
      [] type = "OrderExpired" -> "Expired"

\* Where the audit trail records the transition into state s (0: nowhere)
TrailIndex(order_id, s) ==
    LET ks == {k \in 1..Len(TrailOf(order_id)) : TrailOf(order_id)[k].to_state = s} IN
    IF ks = {} THEN 0 ELSE CHOOSE k \in ks : \A m \in ks : k <= m

\* C9: per order, the events of the submission task, of cancel_order and of
\* reconcile are on the channel in the order of the transitions of the audit
\* trail they report.
C9_EventsInTrailOrder ==
    \A a, b \in 1..Len(events) :
        (/\ a < b
         /\ events[a].order_id = events[b].order_id
         /\ events[a].type # "OrderCreated"
         /\ events[b].type # "OrderCreated"
         /\ TrailIndex(events[a].order_id, EventState(events[a].type)) > 0
         /\ TrailIndex(events[b].order_id, EventState(events[b].type)) > 0)
            => TrailIndex(events[a].order_id, EventState(events[a].type))
                 < TrailIndex(events[b].order_id, EventState(events[b].type))

\* C10: a reconcile step never changes the state or the audit trail of a terminal
\* order, and a reconcile pass run right after another one, with no other operation
\* and no tick of the clock since the first began, changes no order and emits no event.
C10_ReconcileIdempotent ==
    /\ []((rec.pc = "idle" /\ rec.quiet = 2) => (rec.emitted = 0 /\ ~rec.changed))
    /\ [][(rec.pc # "idle" /\ rec'.pc # rec.pc)
            => \A order_id \in DOMAIN orders :
                  is_terminal(StateOf(order_id)) => orders'[order_id] = orders[order_id]]_vars

\* C36: every terminal event on the channel (OrderCancelled, OrderFailed,
\* OrderExpired; the manager sends no OrderFilled and no OrderRejected) refers to an
\* order whose recorded state is, from the send on, the terminal state the event names.
C36_TerminalEventMatchesState ==
    \A k \in 1..Len(events) :
        events[k].type \in {"OrderCancelled", "OrderFailed", "OrderExpired"}
            => /\ events[k].order_id \in DOMAIN orders
               /\ StateOf(events[k].order_id) = EventState(events[k].type)

\* C38: at every moment the active_orders count of get_stats equals the number of
\* orders get_active_orders returns, so an order in a terminal state (Expired
\* included) is never counted as active.
C38_StatsActiveMatchesActiveOrders ==
    get_stats(orders).active_orders = Cardinality(get_active_orders(orders))

(* ----------------------- properties of the validator ---------------------- *)

CriticalCount(result) ==
    Cardinality({i \in 1..Len(result.violations) : result.violations[i].severity = "Critical"})

HasViolation(result, severity, rule) ==
    \E i \in 1..Len(result.violations) :
        result.violations[i] = RiskViolation(severity, rule)

HasRule(result, rule) ==
    \E i \in 1..Len(result.violations) : result.violations[i].rule = rule

\* C11: an order for which validate_order reports a Critical violation is never
\* moved to Submitted by the order manager.
C11_CriticalNeverSubmitted ==
    \A order_id \in DOMAIN orders :
        (/\ validated # NotBuilt
         /\ validated.order.id = order_id
         /\ has_critical_violations(validated.result))
            => \A k \in 1..Len(TrailOf(order_id)) : TrailOf(order_id)[k].to_state # "Submitted"

\* C12: is_valid() is true if and only if the result holds no violation of
\* severity Critical, whatever Warning and Info violations it holds.
C12_ValidIffNoCritical ==
    validated # NotBuilt
        => (is_valid(validated.result) <=> CriticalCount(validated.result) = 0)

\* C12 witness: a result that holds a Warning and an Info violation and no
\* Critical one, and is valid.
C12_Witness ==
    /\ validated # NotBuilt
    /\ HasViolation(validated.result, "Warning", "Custom")
    /\ HasViolation(validated.result, "Info", "Custom")
    /\ CriticalCount(validated.result) = 0
    /\ is_valid(validated.result)

\* C13: when daily_pnl is below -daily_loss_limit the result of validate_order
\* holds a Critical violation of the daily-loss rule and is not valid, for every
\* order; when daily_pnl >= -daily_loss_limit the result holds no violation of
\* the daily-loss rule.
C13_DailyLoss ==
    validated # NotBuilt
        => IF portfolio_state.daily_pnl < -limits.daily_loss_limit
           THEN /\ HasViolation(validated.result, "Critical", "Daily Loss Limit")
                /\ ~is_valid(validated.result)
           ELSE ~HasRule(validated.result, "Daily Loss Limit")

\* C13 witness: the loss is beyond the limit and the order breaks no other rule:
\* the daily-loss violation is the only one, and the order is not valid.
C13_Witness ==
    /\ validated # NotBuilt
    /\ portfolio_state.daily_pnl < -limits.daily_loss_limit
    /\ validated.order.side = "Sell"
    /\ validated.result.violations = <<RiskViolation("Critical", "Daily Loss Limit")>>
    /\ ~is_valid(validated.result)

\* C14: a result of validate_order holds a Warning of the concentration rule when
\* the order's notional over equity, in percent, exceeds max_concentration_pct,
\* and a Warning of the maximum-positions rule when the order opens a new symbol
\* with the number of positions at max_open_positions.
C14_WarningsReported ==
    (validated # NotBuilt /\ validated.added = 0)
        => /\ concentration_pct(validated.order, portfolio_state) > limits.max_concentration_pct
                => HasViolation(validated.result, "Warning", "Concentration Limit")
           /\ (/\ ~has_existing(validated.order, portfolio_state)
               /\ Len(portfolio_state.positions) >= limits.max_open_positions)
                => HasViolation(validated.result, "Warning", "Maximum Positions")

\* The rules of the Critical violations of a result, in the order they were added
CriticalRules(result) ==
    LET IsCritical(v) == v.severity = "Critical"
        crit == SelectSeq(result.violations, IsCritical)
    IN [k \in 1..Len(crit) |-> crit[k].rule]

\* The Critical checks that fail for an order and a snapshot, each evaluated on
\* its own, in the order position size, leverage, daily loss, margin
FailingCritical(l, order, p) ==
    LET Failed(c) == ~c.ok
        failed == SelectSeq(<<[rule |-> "Position Size Limit", ok |-> check_position_size(l, order, p)],
                              [rule |-> "Leverage Limit", ok |-> check_leverage(l, order, p)],
                              [rule |-> "Daily Loss Limit", ok |-> check_daily_loss(l, p)],
                              [rule |-> "Margin Requirement", ok |-> check_margin(l, order, p)]>>,
                            Failed)
    IN [k \in 1..Len(failed) |-> failed[k].rule]

\* C32: validate_order does not short-circuit: the Critical violations of its
\* result are exactly the Critical checks that fail (position size, leverage,
\* daily loss, margin), one violation each whether or not an earlier check
\* failed, in that order.
C32_NoShortCircuit ==
    (validated # NotBuilt /\ validated.added = 0)
        => CriticalRules(validated.result)
             = FailingCritical(limits, validated.order, portfolio_state)

\* C32 witness: an order that fails all four Critical checks: the result holds
\* the four violations in the order position size, leverage, daily loss, margin.
C32_Witness ==
    /\ validated # NotBuilt
    /\ validated.added = 0
    /\ ~check_position_size(limits, validated.order, portfolio_state)
    /\ ~check_leverage(limits, validated.order, portfolio_state)
    /\ ~check_daily_loss(limits, portfolio_state)
    /\ ~check_margin(limits, validated.order, portfolio_state)
    /\ validated.result.violations =
          <<RiskViolation("Critical", "Position Size Limit"),
            RiskViolation("Critical", "Leverage Limit"),
            RiskViolation("Critical", "Daily Loss Limit"),
            RiskViolation("Critical", "Margin Requirement")>>

(* ----------------------- properties of the portfolio ---------------------- *)

IsFill(side) == lastFill.op = "apply_fill" /\ lastFill.order.side = side

FillCost(fill) == DecMul(fill.price, fill.quantity)

FillTotal(fill) == FillCost(fill) + fill.commission + fill.slippage

HeldQty(pf, symbol) == IF symbol \in DOMAIN pf.positions THEN pf.positions[symbol].quantity ELSE 0

HeldEntry(pf, symbol) ==
    IF symbol \in DOMAIN pf.positions THEN pf.positions[symbol].avg_entry_price ELSE 0

\* C15: apply_fill for a Buy with cash >= price*qty + commission + slippage returns
\* Ok, reduces cash by exactly that amount and leaves a position on the symbol
\* with quantity old_qty + fill_qty and average entry
\* (old_qty*old_entry + fill_qty*fill_price)/(old_qty + fill_qty), old_qty being
\* zero when the symbol had no position.
C15_BuyWithinCash ==
    (IsFill("Buy") /\ lastFill.before.cash >= FillTotal(lastFill.fill))
        => LET b == lastFill.before
               f == lastFill.fill
               symbol == lastFill.order.symbol
               old_qty == HeldQty(b, symbol)
               old_entry == HeldEntry(b, symbol)
           IN /\ lastFill.result = "Ok"
              /\ portfolio.cash = b.cash - FillTotal(f)
              /\ symbol \in DOMAIN portfolio.positions
              /\ portfolio.positions[symbol].quantity = old_qty + f.quantity
              /\ portfolio.positions[symbol].avg_entry_price
                    = DecDiv(DecMul(old_qty, old_entry) + FillCost(f), old_qty + f.quantity)

IsOpeningBuy(order, fill, cash, held) ==
    /\ order.side = "Buy"
    /\ order.symbol \notin held
    /\ fill.commission = 0
    /\ fill.slippage = 0
    /\ cash >= FillCost(fill)

\* C18: a Buy of quantity Q of a symbol without position, with zero commission
\* and slippage and within cash, returns Ok, and the Sell of Q of the same symbol
\* at the same price, with zero commission and slippage, that follows it returns
\* Ok and leaves cash and realized_pnl as they were before the Buy and no
\* position on the symbol.
C18_RoundTrip ==
    /\ (/\ lastFill.op = "apply_fill"
        /\ IsOpeningBuy(lastFill.order, lastFill.fill, lastFill.before.cash,
                        DOMAIN lastFill.before.positions))
          => lastFill.result = "Ok"
    /\ (/\ IsFill("Sell")
        /\ lastFill.fill.commission = 0
        /\ lastFill.fill.slippage = 0
        /\ lastFill.prev # << >>
        /\ IsOpeningBuy(lastFill.prev[1].order, lastFill.prev[1].fill, lastFill.prev[1].cash,
                        lastFill.prev[1].held)
        /\ lastFill.prev[1].order.symbol = lastFill.order.symbol
        /\ lastFill.prev[1].fill.price = lastFill.fill.price
        /\ lastFill.prev[1].fill.quantity = lastFill.fill.quantity)
          => /\ lastFill.prev[1].result = "Ok"
             /\ lastFill.result = "Ok"
             /\ portfolio.cash = lastFill.prev[1].cash
             /\ portfolio.realized_pnl = lastFill.prev[1].realized_pnl
             /\ lastFill.order.symbol \notin DOMAIN portfolio.positions

\* The fill meets the condition under which apply_fill is to succeed: a Buy
\* within cash, a Sell within the position held
FillIsCovered(pf, order, fill) ==
    IF order.side = "Buy"
    THEN pf.cash >= FillTotal(fill)
    ELSE order.symbol \in DOMAIN pf.positions /\ HeldQty(pf, order.symbol) >= fill.quantity

C37_ApplyFillAtomicOnFailure ==
    (lastFill.op = "apply_fill" /\ lastFill.result # "Ok")
        => /\ portfolio.cash = lastFill.before.cash
           /\ portfolio.positions = lastFill.before.positions
           /\ portfolio.realized_pnl = lastFill.before.realized_pnl
           /\ portfolio.total_commission = lastFill.before.total_commission
           /\ portfolio.total_slippage = lastFill.before.total_slippage
           /\ portfolio.equity_curve = lastFill.before.equity_curve

(* ----------------------- properties of the cost model ---------------------- *)

\* The arguments of the documented example: 0.1 @ 50000, avg_volume 1.0, a
\* Market order under the default model
IsCostExample ==
    /\ costCall.model = CostModel_default
    /\ costCall.order_type = "Market"
    /\ costCall.price = Rat(50000, 1)
    /\ costCall.quantity = Rat(1, 10)
    /\ costCall.avg_volume = Rat(1, 1)

\* C26: calculate_total_cost returns the execution price base + slippage for a Buy
\* and base - slippage for a Sell; the slippage does not depend on the side, so
\* for the same arguments the two execution prices lie symmetric around base; for
\* Buy 0.1 @ 50000, avg_volume 1.0 and the default model the Buy price is 50025.5
\* and the Sell price 49974.5.
C26_SymmetricAroundBase ==
    LET returned == costCall.returned IN
    /\ \A side \in DOMAIN returned :
          IF side = "Buy"
          THEN returned[side].execution_price = RatAdd(costCall.price, returned[side].slippage)
          ELSE RatAdd(returned[side].execution_price, returned[side].slippage) = costCall.price
    /\ DOMAIN returned = OrderSide =>
          /\ returned["Buy"].slippage = returned["Sell"].slippage
          /\ RatAdd(returned["Buy"].execution_price, returned["Sell"].execution_price)
                = RatMul(Rat(2, 1), costCall.price)
    /\ IsCostExample =>
          /\ "Buy" \in DOMAIN returned => returned["Buy"].execution_price = Rat(500255, 10)
          /\ "Sell" \in DOMAIN returned => returned["Sell"].execution_price = Rat(499745, 10)

\* the example has been computed for both sides, with a slippage of 25.5
C26_Witness ==
    /\ IsCostExample
    /\ DOMAIN costCall.returned = OrderSide
    /\ costCall.returned["Buy"].slippage = Rat(255, 10)
    /\ costCall.returned["Sell"].execution_price = Rat(499745, 10)

(* ------------------------ properties of the core Order ----------------------- *)

\* C27: for every Order, after any sequence of mark_submitted, update_fill and
\* set_status calls, filled_quantity <= quantity.
C27_FilledWithinQuantity == ord.order.filled_quantity <= ord.order.quantity

\* The fields the claim freezes on a terminal Order
Frozen(order) ==
    <<order.status, order.filled_quantity, order.avg_fill_price, order.completed_at>>

\* C28: once the status of an Order is terminal (Filled, Cancelled, Rejected or
\* Failed), no later call of update_fill, set_status or mark_submitted changes its
\* status, filled_quantity, avg_fill_price or completed_at.
C28_TerminalOrderFrozen ==
    (ord.n > 0 /\ Order_is_terminal(ord.before)) => Frozen(ord.order) = Frozen(ord.before)

(* ------------------------ properties of the TWAP executor ----------------------- *)

\* execute has entered its loop
TwapStarted == twap.pc \in {"loop", "Ok", "Err"}

\* C29: in a TWAP execution the target quantity of every slice is at most the
\* quantity that remained before the slice, so the remaining quantity never is
\* negative and the executed quantity never exceeds total_quantity, over at most
\* max(1, floor(duration / slice_interval)) slices.
C29_SlicesClamped ==
    TwapStarted =>
        /\ \A i \in DOMAIN twap.slice_details :
              twap.slice_details[i].target_quantity <= twap.before[i]
        /\ twap.remaining >= 0
        /\ twap.total_executed <= twap.config.total_quantity
        /\ Len(twap.slice_details) <= slice_count_of(twap.config)
        /\ twap.slices_executed + twap.slices_failed = Len(twap.slice_details)

\* the third of three slices was cut down to what remained, and everything is executed
C29_Witness ==
    /\ twap.pc = "Ok"
    /\ Len(twap.slice_details) = 3
    /\ twap.slice_details[3].target_quantity = twap.before[3]
    /\ twap.slice_details[3].target_quantity < twap.base_slice_size
    /\ twap.total_executed = twap.config.total_quantity
    /\ twap.remaining = 0

\* The quantity filled on the child order of slice k: the k-th order handed to
\* submit_order
ChildFilled(k) ==
    IF k <= Len(submits) /\ submits[k].id \in DOMAIN orders
    THEN orders[submits[k].id].order.filled_quantity
    ELSE 0

\* C40: the total_executed a TWAP execution reports equals the sum of the
\* quantities filled on its child orders, and each slice's executed quantity is
\* the quantity filled on its child: 0 for a child that is Cancelled, Expired,
\* Rejected or Failed or was never filled.
C40_ExecutedIsFilled ==
    twap.pc = "Ok"
        => /\ twap.total_executed
                 = DecSum([k \in 1..Len(twap.slice_details) |-> ChildFilled(k)])
           /\ \A k \in 1..Len(twap.slice_details) :
                 twap.slice_details[k].executed_quantity = ChildFilled(k)

(* ---------------------- properties of the backtest engine --------------------- *)

RunsOf == {bt.runs[r] : r \in DOMAIN bt.runs}

\* the data source returns no candles for one of the configured symbols
LacksData(e) ==
    \E i \in DOMAIN e.config.symbols : query_candles(e.storage, e.config.symbols[i]) = << >>

\* C21: if the data source returns no candles for one of the configured symbols,
\* run returns InsufficientData before any event is processed: the strategy is
\* neither initialised nor fed market data, no order is created and the portfolio
\* is as Portfolio::new left it.
C21_NoDataNoEvent ==
    \A e \in RunsOf :
        LacksData(e) =>
            /\ e.pc \in {"new", "done"}
            /\ e.pc = "done" => e.returned.kind = "InsufficientData"
            /\ e.processed = 0
            /\ ~e.strategy.initialized
            /\ e.strategy.market_data = 0
            /\ e.strategy.signals = 0
            /\ e.uuids = 0
            /\ e.pending_orders = << >>
            /\ e.attempts = << >>
            /\ e.portfolio = Portfolio_new(e.config.initial_capital)

\* run has returned InsufficientData for the second symbol, the candles of the
\* first being loaded
C21_Witness ==
    \E e \in RunsOf :
        /\ e.pc = "done"
        /\ e.returned = Returned("InsufficientData", "ETH-USDT")
        /\ e.config.symbols = <<"BTC-USDT", "ETH-USDT">>
        /\ Len(e.events) = MaxCandles
        /\ e.strategy.script[1] = "Buy"

\* An execution as the claim reads it: without the id of its order
ExecutionRead(x) ==
    [side |-> x.side, symbol |-> x.symbol, filled_price |-> x.filled_price,
     filled_quantity |-> x.filled_quantity, commission |-> x.commission,
     timestamp |-> x.timestamp]

\* What a finished run has produced
OutputOf(e) ==
    [returned |-> e.returned,
     summary |-> e.summary,
     equity_curve |-> e.portfolio.equity_curve,
     executions |-> [k \in DOMAIN e.executions |-> ExecutionRead(e.executions[k])]]

C23_MarketFilledAtClose ==
    \A e \in RunsOf :
        /\ \A k \in DOMAIN e.attempts :
              LET a == e.attempts[k] IN
              (a.order.order_type = "Market" /\ a.order.id \in DOMAIN e.enqueued) =>
                  /\ a.event = e.enqueued[a.order.id] + 1
                  /\ a.outcome = "Ok"
                  /\ a.base = a.current
        /\ \A id \in DOMAIN e.pending_orders :
              e.pending_orders[id].order_type = "Market" => e.enqueued[id] = e.processed

\* Whatever the inputs, no run ever holds a position, records an execution or a
\* trade, or has more than one order pending
BT_NothingFills ==
    \A e \in RunsOf :
        /\ e.portfolio.positions = << >>
        /\ e.executions = << >>
        /\ e.trades = << >>
        /\ e.portfolio.equity_curve = << >>
        /\ Cardinality(DOMAIN e.pending_orders) <= 1
        /\ \A k \in DOMAIN e.attempts : e.attempts[k].outcome = "Panic"
        /\ e.attempts # << >> => e.returned.kind = "Panic"

\* The number of candles the data source holds for the configured symbols
CandleCount(e) ==
    DecSum([i \in DOMAIN e.config.symbols |-> Len(query_candles(e.storage, e.config.symbols[i]))])

StrategyError(method) == Returned("StrategyError", method)

SymbolIndex(e, symbol) ==
    CHOOSE i \in DOMAIN e.config.symbols : e.config.symbols[i] = symbol

\* C33: the output of a backtest does not depend on the order in which the data
\* source returns the candles of a symbol: every run processes its events by
\* non-decreasing timestamp, events of equal timestamp in the order of
\* config.symbols, and two runs on data sources that hold the same candles in
\* different orders process the same sequence of events and return the same,
\* with the same executions and equity curve.
C33_CandleOrderIrrelevant ==
    /\ \A e \in RunsOf :
          \A k \in 1..(Len(e.trace) - 1) :
              \/ e.trace[k].timestamp < e.trace[k + 1].timestamp
              \/ /\ e.trace[k].timestamp = e.trace[k + 1].timestamp
                 /\ SymbolIndex(e, e.trace[k].symbol) < SymbolIndex(e, e.trace[k + 1].symbol)
    /\ \A e1, e2 \in RunsOf :
          (e1.pc = "done" /\ e2.pc = "done")
              => /\ e1.trace = e2.trace
                 /\ OutputOf(e1) = OutputOf(e2)

\* C33 witness: two finished runs over both symbols, the second on a data source
\* that returned the candles of each symbol latest first; both processed the four
\* events in the same order
C33_Witness ==
    /\ Len(bt.runs) = 2
    /\ bt.runs[1].pc = "done"
    /\ bt.runs[2].pc = "done"
    /\ bt.config.symbols = <<"BTC-USDT", "ETH-USDT">>
    /\ \A symbol \in Symbols :
          /\ Len(bt.runs[2].storage[symbol]) = MaxCandles
          /\ bt.runs[2].storage[symbol][1].timestamp = MaxCandles
          /\ bt.runs[1].storage[symbol][1].timestamp = 1
    /\ Len(bt.runs[2].trace) = 2 * MaxCandles
    /\ bt.runs[1].trace = bt.runs[2].trace

====
